---- MODULE Spec2Model ----
(***************************************************************************)
(* Model of the bug-attribution engine of package agent:                   *)
(*   AnalyzeSingleCommit  - one task: candidate decomposition, oracle      *)
(*                          call, payload location, permissive parse       *)
(*   AnalyzeBugInCommits  - the coordinator: one goroutine per candidate,  *)
(*                          a buffered result channel, the select loop and *)
(*                          the two-tier selection                         *)
(* and of the automatic update check of package main and package updater.  *)
(* and of the document fan-outs and the streaming calls of package agent.  *)
(* Six specifications share the variables:                                 *)
(*   Spec / FairSpec - one call of AnalyzeBugInCommits                     *)
(*   ExtractSpec     - AnalyzeSingleCommit from the oracle's reply on      *)
(*   SplitSpec       - splitJSONPairs on a payload                         *)
(*   UpdateSpec      - docu-jarvis commands and the update-check goroutine *)
(*   DocsSpec        - ProcessDocuments, UpdateSpecificDocuments and       *)
(*                     WriteDocumentation: tasks, WaitGroup, range loop    *)
(*   StreamSpec      - the select loop of ProcessFile and getResponse      *)
(* Texts are sequences of one-character strings; Go indices are 0-based    *)
(* and are kept 0-based here (Index returns -1 for "not found").           *)
(***************************************************************************)
EXTENDS Integers, Sequences, FiniteSets, TLC

\* ------------------------------------------------------------------ bounds

\* Largest number of candidate commits handed to AnalyzeBugInCommits.
MaxCommits == 3

\* ------------------------------------------------------------ package strings

\* unicode.IsSpace restricted to the ASCII white space a reply can hold.
IsSpace(c) == c \in {" ", "\t", "\n", "\r"}

\* s[lo:hi] of Go: 0-based, hi exclusive.
Slice(s, lo, hi) == SubSeq(s, lo + 1, hi)

\* strings.HasPrefix(s, p)
HasPrefix(s, p) == Len(s) >= Len(p) /\ SubSeq(s, 1, Len(p)) = p

\* strings.HasSuffix(s, p)
HasSuffix(s, p) == Len(s) >= Len(p) /\ SubSeq(s, Len(s) - Len(p) + 1, Len(s)) = p

\* strings.Index(s, sub): 0-based position of the first occurrence, or -1.
Index(s, sub) ==
    LET hits == {i \in 0..(Len(s) - Len(sub)) : SubSeq(s, i + 1, i + Len(sub)) = sub}
    IN  IF hits = {} THEN -1 ELSE CHOOSE i \in hits : \A j \in hits : i <= j

\* strings.LastIndex(s, sub): 0-based position of the last occurrence, or -1.
LastIndex(s, sub) ==
    LET hits == {i \in 0..(Len(s) - Len(sub)) : SubSeq(s, i + 1, i + Len(sub)) = sub}
    IN  IF hits = {} THEN -1 ELSE CHOOSE i \in hits : \A j \in hits : i >= j

\* strings.Contains(s, sub)
Contains(s, sub) == Index(s, sub) >= 0

\* strings.TrimFunc(s, f) for the predicate "c is in the set drop".
TrimSet(s, drop) ==
    LET keep == {i \in 1..Len(s) : s[i] \notin drop}
    IN  IF keep = {} THEN <<>>
        ELSE SubSeq(s, CHOOSE i \in keep : \A j \in keep : i <= j,
                       CHOOSE i \in keep : \A j \in keep : i >= j)

\* strings.TrimSpace(s)
TrimSpace(s) == TrimSet(s, {" ", "\t", "\n", "\r"})

\* strings.Trim(s, cutset), the cutset given as a set of characters.
Trim(s, cutset) == TrimSet(s, cutset)

\* strings.TrimSuffix(s, suffix)
TrimSuffix(s, suffix) ==
    IF HasSuffix(s, suffix) THEN SubSeq(s, 1, Len(s) - Len(suffix)) ELSE s

\* strings.Split(s, sep) for a one-character separator: the fields between
\* the separators, in order (an empty text gives one empty field).
RECURSIVE Split(_, _)
Split(s, sep) ==
    LET i == Index(s, <<sep>>)
    IN  IF i < 0 THEN <<s>>
        ELSE <<Slice(s, 0, i)>> \o Split(Slice(s, i + 1, Len(s)), sep)

\* strings.SplitN(s, sep, 2) for a one-character separator.
SplitN2(s, sep) ==
    LET i == Index(s, <<sep>>)
    IN  IF i < 0 THEN <<s>> ELSE <<Slice(s, 0, i), Slice(s, i + 1, Len(s))>>

\* ------------------------------------------------------------- package fmt

Digits == {"0", "1", "2", "3", "4", "5", "6", "7", "8", "9"}

DigitVal(c) ==
    CASE c = "0" -> 0 [] c = "1" -> 1 [] c = "2" -> 2 [] c = "3" -> 3
      [] c = "4" -> 4 [] c = "5" -> 5 [] c = "6" -> 6 [] c = "7" -> 7
      [] c = "8" -> 8 [] c = "9" -> 9

\* The value of the decimal digits s[1..k].
RECURSIVE DecimalValue(_, _)
DecimalValue(s, k) ==
    IF k = 0 THEN 0 ELSE 10 * DecimalValue(s, k - 1) + DigitVal(s[k])

\* ss.SkipSpace of a Sscanf scan: the 0-based position of the first character
\* that is not white space, or -1 where the scan fails on a newline.
RECURSIVE SkipSpace(_, _)
SkipSpace(s, i) ==
    IF i >= Len(s) THEN i
    ELSE IF s[i + 1] = "\r" /\ i + 1 < Len(s) /\ s[i + 2] = "\n" THEN SkipSpace(s, i + 1)
    ELSE IF s[i + 1] = "\n" THEN -1
    ELSE IF IsSpace(s[i + 1]) THEN SkipSpace(s, i + 1)
    ELSE i

\* The number of leading characters of s[i:] that are decimal digits.
RECURSIVE DigitRun(_, _)
DigitRun(s, i) ==
    IF i < Len(s) /\ s[i + 1] \in Digits THEN 1 + DigitRun(s, i + 1) ELSE 0

\* fmt.Sscanf(value, "%d", &n): white space is skipped, an optional sign is
\* accepted, then at least one digit is required; what follows the digits is
\* left unread.  ok = FALSE leaves the target untouched.
\* Mutant of Sscanf: the whole value has to be a number.
SscanfWholeValue(value) ==
    LET p == SkipSpace(value, 0)
    IN  IF p < 0 \/ p >= Len(value) THEN [ok |-> FALSE, n |-> 0]
        ELSE LET signed == value[p + 1] \in {"+", "-"}
                 q      == IF signed THEN p + 1 ELSE p
                 k      == DigitRun(value, q)
                 mag    == DecimalValue(Slice(value, q, q + k), k)
             IN  IF k = 0 \/ q + k # Len(value) THEN [ok |-> FALSE, n |-> 0]
                 ELSE [ok |-> TRUE,
                       n  |-> IF value[p + 1] = "-" THEN 0 - mag ELSE mag]

Sscanf(value) ==
    LET p == SkipSpace(value, 0)
    IN  IF p < 0 \/ p >= Len(value) THEN [ok |-> FALSE, n |-> 0]
        ELSE LET signed == value[p + 1] \in {"+", "-"}
                 q      == IF signed THEN p + 1 ELSE p
                 k      == DigitRun(value, q)
                 mag    == DecimalValue(Slice(value, q, q + k), k)
             IN  IF k = 0 THEN [ok |-> FALSE, n |-> 0]
                 ELSE [ok |-> TRUE,
                       n  |-> IF value[p + 1] = "-" THEN 0 - mag ELSE mag]

\* ----------------------------------------------------------- splitJSONPairs

\* The loop of splitJSONPairs from byte i on; st holds the locals of the
\* function: the pairs gathered so far, the builder "current", and the
\* inQuotes/depth scanner state.
RECURSIVE SplitLoop(_, _, _)
SplitLoop(s, i, st) ==
    IF i >= Len(s)
    THEN IF Len(st.current) > 0 THEN Append(st.pairs, TrimSpace(st.current))
         ELSE st.pairs
    ELSE LET char == s[i + 1]
             put  == Append(st.current, char)
         IN  CASE char = "\"" ->
                    SplitLoop(s, i + 1,
                        [st EXCEPT !.current = put,
                                   !.inQuotes = IF i = 0 \/ s[i] # "\\"
                                                THEN ~st.inQuotes ELSE st.inQuotes])
               [] char \in {"{", "["} ->
                    SplitLoop(s, i + 1,
                        [st EXCEPT !.current = put,
                                   !.depth = IF ~st.inQuotes THEN st.depth + 1
                                             ELSE st.depth])
               [] char \in {"}", "]"} ->
                    SplitLoop(s, i + 1,
                        [st EXCEPT !.current = put,
                                   !.depth = IF ~st.inQuotes THEN st.depth - 1
                                             ELSE st.depth])
               [] char = "," ->
                    IF ~st.inQuotes /\ st.depth = 0
                    THEN SplitLoop(s, i + 1,
                             [st EXCEPT !.pairs = Append(st.pairs, TrimSpace(st.current)),
                                        !.current = <<>>])
                    ELSE SplitLoop(s, i + 1, [st EXCEPT !.current = put])
               [] OTHER ->
                    SplitLoop(s, i + 1, [st EXCEPT !.current = put])

splitJSONPairs(jsonContent) ==
    SplitLoop(jsonContent, 0,
              [pairs |-> <<>>, current |-> <<>>, inQuotes |-> FALSE, depth |-> 0])

\* ------------------------------------------------- AnalyzeSingleCommit: payload

\* The backquote character (a TLA+ string cannot hold it).
BQ == "bq"

JsonFence == <<BQ, BQ, BQ, "j", "s", "o", "n">>
Fence     == <<BQ, BQ, BQ>>

\* Mutant of BlockPayload: a text in square brackets is taken whole, like a
\* text in braces.
BlockPayloadArrays(blockText) ==
    LET text     == TrimSpace(blockText)
        start    == Index(text, JsonFence)
        end      == IF start >= 0 THEN Index(Slice(text, start + 7, Len(text)), Fence)
                    ELSE -1
        startIdx == Index(text, <<"{">>)
        endIdx   == LastIndex(text, <<"}">>)
    IN  IF Contains(text, JsonFence) /\ start >= 0 /\ end > 0
        THEN [hit |-> TRUE, json |-> TrimSpace(Slice(text, start + 7, start + 7 + end))]
        ELSE IF \/ HasPrefix(text, <<"{">>) /\ HasSuffix(text, <<"}">>)
                \/ HasPrefix(text, <<"[">>) /\ HasSuffix(text, <<"]">>)
        THEN [hit |-> TRUE, json |-> text]
        ELSE IF startIdx >= 0 /\ endIdx > startIdx
        THEN [hit |-> TRUE, json |-> TrimSpace(Slice(text, startIdx, endIdx + 1))]
        ELSE [hit |-> FALSE, json |-> <<>>]

\* Mutant of BlockPayload: the first-brace/last-brace span is tried before
\* the fenced block.
BlockPayloadSpanFirst(blockText) ==
    LET text     == TrimSpace(blockText)
        start    == Index(text, JsonFence)
        end      == IF start >= 0 THEN Index(Slice(text, start + 7, Len(text)), Fence)
                    ELSE -1
        startIdx == Index(text, <<"{">>)
        endIdx   == LastIndex(text, <<"}">>)
    IN  IF startIdx >= 0 /\ endIdx > startIdx
        THEN [hit |-> TRUE, json |-> TrimSpace(Slice(text, startIdx, endIdx + 1))]
        ELSE IF Contains(text, JsonFence) /\ start >= 0 /\ end > 0
        THEN [hit |-> TRUE, json |-> TrimSpace(Slice(text, start + 7, start + 7 + end))]
        ELSE IF HasPrefix(text, <<"{">>) /\ HasSuffix(text, <<"}">>)
        THEN [hit |-> TRUE, json |-> text]
        ELSE [hit |-> FALSE, json |-> <<>>]

\* One text block of the reply: hit = the block loop breaks on this block,
\* json = the value the block assigns to jsonResponse.
BlockPayload(blockText) ==
    LET text     == TrimSpace(blockText)
        start    == Index(text, JsonFence)
        end      == IF start >= 0 THEN Index(Slice(text, start + 7, Len(text)), Fence)
                    ELSE -1
        startIdx == Index(text, <<"{">>)
        endIdx   == LastIndex(text, <<"}">>)
    IN  IF Contains(text, JsonFence) /\ start >= 0 /\ end > 0
        THEN [hit |-> TRUE, json |-> TrimSpace(Slice(text, start + 7, start + 7 + end))]
        ELSE IF HasPrefix(text, <<"{">>) /\ HasSuffix(text, <<"}">>)
        THEN [hit |-> TRUE, json |-> text]
        ELSE IF startIdx >= 0 /\ endIdx > startIdx
        THEN [hit |-> TRUE, json |-> TrimSpace(Slice(text, startIdx, endIdx + 1))]
        ELSE [hit |-> FALSE, json |-> <<>>]

\* The inner loop over the text blocks of one message, from block b on:
\* jsonResponse after the loop, given its value before.
RECURSIVE BlockLoop(_, _, _)
BlockLoop(blocks, b, jsonResponse) ==
    IF b > Len(blocks) THEN jsonResponse
    ELSE IF BlockPayload(blocks[b]).hit THEN BlockPayload(blocks[b]).json
    ELSE BlockLoop(blocks, b + 1, jsonResponse)

\* The outer loop over the messages from message m on; it stops at the
\* first message that leaves jsonResponse non-empty.
RECURSIVE MessageLoop(_, _, _)
MessageLoop(messages, m, jsonResponse) ==
    IF m > Len(messages) THEN jsonResponse
    ELSE LET after == BlockLoop(messages[m], 1, jsonResponse)
         IN  IF after # <<>> THEN after ELSE MessageLoop(messages, m + 1, after)

\* jsonResponse as located in the oracle messages (the empty text = nothing found).
LocatePayload(messages) == MessageLoop(messages, 1, <<>>)

\* --------------------------------------------------- AnalyzeSingleCommit: parse

KeyCommitHash  == <<"c", "o", "m", "m", "i", "t", "_", "h", "a", "s", "h">>
KeyCommitMsg   == <<"c", "o", "m", "m", "i", "t", "_", "m", "e", "s", "s", "a", "g", "e">>
KeyAuthor      == <<"a", "u", "t", "h", "o", "r">>
KeyDate        == <<"d", "a", "t", "e">>
KeyExplanation == <<"e", "x", "p", "l", "a", "n", "a", "t", "i", "o", "n">>
KeyIsLikely    == <<"i", "s", "_", "l", "i", "k", "e", "l", "y">>
KeyConfidence  == <<"c", "o", "n", "f", "i", "d", "e", "n", "c", "e">>
TokenTrue      == <<"t", "r", "u", "e">>

\* &CommitAnalysis{}: the zero value, ptr being the identity of the allocation.
ZeroAnalysis(ptr) ==
    [ptr |-> ptr, CommitHash |-> <<>>, CommitMsg |-> <<>>, Author |-> <<>>,
     Date |-> <<>>, Explanation |-> <<>>, IsLikely |-> FALSE, Confidence |-> 0]

\* Mutant of ApplyPair: is_likely is compared without regard to case.
ApplyPairAnyCase(analysis, pair) ==
    LET parts == SplitN2(pair, ":")
    IN  IF Len(parts) # 2 THEN analysis
        ELSE LET key   == Trim(TrimSpace(parts[1]), {"\""})
                 value == Trim(TrimSuffix(TrimSpace(parts[2]), <<",">>), {"\""})
             IN  CASE key = KeyCommitHash  -> [analysis EXCEPT !.CommitHash = value]
                   [] key = KeyCommitMsg   -> [analysis EXCEPT !.CommitMsg = value]
                   [] key = KeyAuthor      -> [analysis EXCEPT !.Author = value]
                   [] key = KeyDate        -> [analysis EXCEPT !.Date = value]
                   [] key = KeyExplanation -> [analysis EXCEPT !.Explanation = value]
                   [] key = KeyIsLikely    -> 
                        [analysis EXCEPT !.IsLikely =
                            (value \in {TokenTrue, <<"T", "r", "u", "e">>,
                                        <<"T", "R", "U", "E">>})]
                   [] key = KeyConfidence  ->
                        IF Sscanf(value).ok
                        THEN [analysis EXCEPT !.Confidence = Sscanf(value).n]
                        ELSE analysis
                   [] OTHER -> analysis

\* The body of the loop over the pairs: one "key: value" pair applied.
ApplyPair(analysis, pair) ==
    LET parts == SplitN2(pair, ":")
    IN  IF Len(parts) # 2 THEN analysis
        ELSE LET key   == Trim(TrimSpace(parts[1]), {"\""})
                 value == Trim(TrimSuffix(TrimSpace(parts[2]), <<",">>), {"\""})
             IN  CASE key = KeyCommitHash  -> [analysis EXCEPT !.CommitHash = value]
                   [] key = KeyCommitMsg   -> [analysis EXCEPT !.CommitMsg = value]
                   [] key = KeyAuthor      -> [analysis EXCEPT !.Author = value]
                   [] key = KeyDate        -> [analysis EXCEPT !.Date = value]
                   [] key = KeyExplanation -> [analysis EXCEPT !.Explanation = value]
                   [] key = KeyIsLikely    -> [analysis EXCEPT !.IsLikely = (value = TokenTrue)]
                   [] key = KeyConfidence  ->
                        IF Sscanf(value).ok
                        THEN [analysis EXCEPT !.Confidence = Sscanf(value).n]
                        ELSE analysis
                   [] OTHER -> analysis

RECURSIVE PairLoop(_, _, _)
PairLoop(pairs, k, analysis) ==
    IF k > Len(pairs) THEN analysis
    ELSE PairLoop(pairs, k + 1, ApplyPair(analysis, pairs[k]))

\* The permissive parse of a located payload into a CommitAnalysis.
ParseAnalysis(jsonResponse, ptr) ==
    PairLoop(splitJSONPairs(Trim(TrimSpace(jsonResponse), {"{", "}"})), 1,
             ZeroAnalysis(ptr))

\* ------------------------------------------------------------------ inputs

\* Candidate records as GetCommitsBetweenDates formats them
\* (hash|author|date|subject), and two that do not decompose.
CommitGood      == <<"a", "1", "b", "2", "c", "3", "d", "4", "|", "a", "l", "|", "d", "1", "|", "f", "i", "x">>
CommitFewFields == <<"a", "1", "b", "2", "c", "3", "d", "4", "|", "a", "l", "|", "d", "1">>
CommitShortHash == <<"a", "1", "b", "2", "|", "a", "l", "|", "d", "1", "|", "f", "i", "x">>

Candidates == {CommitGood, CommitFewFields, CommitShortHash}

\* Reply texts of the oracle: a bare object, a fenced object, an object
\* inside prose, an empty object, and prose without any payload.
TextLikely70   == <<"{", "\"", "i", "s", "_", "l", "i", "k", "e", "l", "y", "\"", ":", " ", "t", "r", "u", "e", ",", " ", "\"", "c", "o", "n", "f", "i", "d", "e", "n", "c", "e", "\"", ":", " ", "7", "0", ",", " ", "\"", "c", "o", "m", "m", "i", "t", "_", "h", "a", "s", "h", "\"", ":", " ", "\"", "z", "z", "9", "\"", ",", " ", "\"", "a", "u", "t", "h", "o", "r", "\"", ":", " ", "\"", "e", "v", "e", "\"", "}">>
TextLikely40   == <<BQ, BQ, BQ, "j", "s", "o", "n", "\n", "{", "\"", "c", "o", "n", "f", "i", "d", "e", "n", "c", "e", "\"", ":", " ", "4", "0", ",", " ", "\"", "i", "s", "_", "l", "i", "k", "e", "l", "y", "\"", ":", " ", "t", "r", "u", "e", "}", "\n", BQ, BQ, BQ>>
TextUnlikely55 == <<"S", "o", ":", " ", "{", "\"", "i", "s", "_", "l", "i", "k", "e", "l", "y", "\"", ":", " ", "f", "a", "l", "s", "e", ",", " ", "\"", "c", "o", "n", "f", "i", "d", "e", "n", "c", "e", "\"", ":", " ", "5", "5", "}", ".">>
TextUnlikely30 == <<"{", "\"", "c", "o", "n", "f", "i", "d", "e", "n", "c", "e", "\"", ":", " ", "3", "0", ",", " ", "\"", "i", "s", "_", "l", "i", "k", "e", "l", "y", "\"", ":", " ", "f", "a", "l", "s", "e", "}">>
TextProse      == <<"I", " ", "c", "a", "n", "n", "o", "t", " ", "t", "e", "l", "l", ".">>
TextEmpty      == <<"{", "}">>

ReplyTexts == {TextLikely70, TextLikely40, TextUnlikely55, TextEmpty, TextProse}

\* What claudecode.QueryWithRequest can hand back: an error, or messages
\* (each message a sequence of text blocks).
OracleReturns ==
    {[err |-> TRUE, messages |-> <<>>]}
    \cup {[err |-> FALSE, messages |-> << <<t>> >>] : t \in ReplyTexts}

\* ------------------------------------------------------ AnalyzeSingleCommit

\* A nil *CommitAnalysis; allocations are numbered from 1.
NilAnalysis == [ptr |-> 0]

NoError          == "nil"
ErrInvalidCommit == "invalid commit format"
ErrAnalysis      == "analysis error"
ErrNoJSON        == "Claude did not return expected JSON response"
ErrNoCommits     == "no commits could be analyzed"
ErrContext       == "context canceled"

\* The length the task slices the hash to for its log line (commitHash[:8]).
HashLogLen == 8

\* AnalyzeSingleCommit up to the oracle call: "invalid" = the early return,
\* "panic" = the slice of a hash shorter than HashLogLen, "query" = the
\* oracle is called.
Decompose(commit) ==
    LET parts == Split(commit, "|")
    IN  IF Len(parts) < 4 THEN "invalid"
        ELSE IF Len(parts[1]) < HashLogLen THEN "panic"
        ELSE "query"

\* Decompose tabulated over the candidates.
DecomposeOf == [commit \in Candidates |-> Decompose(commit)]

\* Mutant of AfterQuery: an oracle error comes back with an analysis too.
AfterQueryBothOnError(oracle, ptr) ==
    IF oracle.err THEN [Analysis |-> ZeroAnalysis(ptr), Error |-> ErrAnalysis]
    ELSE LET jsonResponse == LocatePayload(oracle.messages)
         IN  IF jsonResponse = <<>>
             THEN [Analysis |-> NilAnalysis, Error |-> ErrNoJSON]
             ELSE [Analysis |-> ParseAnalysis(jsonResponse, ptr), Error |-> NoError]

\* Mutant of AfterQuery: a reply without a payload gives a zero analysis
\* instead of an error.
AfterQueryZeroOnNoJSON(oracle, ptr) ==
    IF oracle.err THEN [Analysis |-> NilAnalysis, Error |-> ErrAnalysis]
    ELSE LET jsonResponse == LocatePayload(oracle.messages)
         IN  IF jsonResponse = <<>>
             THEN [Analysis |-> ZeroAnalysis(ptr), Error |-> NoError]
             ELSE [Analysis |-> ParseAnalysis(jsonResponse, ptr), Error |-> NoError]

\* Mutant of AfterQuery: a payload in which no pair is found is a failure.
AfterQueryNeedsPairs(oracle, ptr) ==
    IF oracle.err THEN [Analysis |-> NilAnalysis, Error |-> ErrAnalysis]
    ELSE LET jsonResponse == LocatePayload(oracle.messages)
         IN  IF jsonResponse = <<>>
                \/ ParseAnalysis(jsonResponse, ptr) = ZeroAnalysis(ptr)
             THEN [Analysis |-> NilAnalysis, Error |-> ErrNoJSON]
             ELSE [Analysis |-> ParseAnalysis(jsonResponse, ptr), Error |-> NoError]

\* AnalyzeSingleCommit from the return of the oracle call on: the
\* (analysis, err) pair it returns; ptr identifies the allocated analysis.
AfterQuery(oracle, ptr) ==
    IF oracle.err THEN [Analysis |-> NilAnalysis, Error |-> ErrAnalysis]
    ELSE LET jsonResponse == LocatePayload(oracle.messages)
         IN  IF jsonResponse = <<>>
             THEN [Analysis |-> NilAnalysis, Error |-> ErrNoJSON]
             ELSE [Analysis |-> ParseAnalysis(jsonResponse, ptr), Error |-> NoError]

\* AfterQuery tabulated over the oracle returns and the goroutines.
AfterQueryOf ==
    [oracle \in OracleReturns, ptr \in 1..MaxCommits |-> AfterQuery(oracle, ptr)]

\* ------------------------------------------------------ AnalyzeBugInCommits

\* Mutant of LoopCondition: the loop stops one outcome early.
LoopConditionOffByOne(n, totalCommits) == n + 1 < totalCommits

\* The condition of the drain loop.
LoopCondition(n, totalCommits) == n < totalCommits

\* Mutant of Better: the comparison is turned around.
BetterReversed(analysis, bestMatch) ==
    bestMatch = NilAnalysis \/ analysis.Confidence < bestMatch.Confidence

\* Mutant of Better: an equal confidence replaces the best match too.
BetterOrEqual(analysis, bestMatch) ==
    bestMatch = NilAnalysis \/ analysis.Confidence >= bestMatch.Confidence

\* "bestMatch == nil || analysis.Confidence > bestMatch.Confidence"
Better(analysis, bestMatch) ==
    bestMatch = NilAnalysis \/ analysis.Confidence > bestMatch.Confidence

\* Mutant of LikelyLoop: the IsLikely test is missing.
RECURSIVE LikelyLoopAnyVerdict(_, _, _)
LikelyLoopAnyVerdict(list, k, bestMatch) ==
    IF k > Len(list) THEN bestMatch
    ELSE LikelyLoopAnyVerdict(list, k + 1,
             IF bestMatch = NilAnalysis \/ list[k].Confidence > bestMatch.Confidence
             THEN list[k] ELSE bestMatch)

\* The first selection loop: only analyses with IsLikely take part.
RECURSIVE LikelyLoop(_, _, _)
LikelyLoop(list, k, bestMatch) ==
    IF k > Len(list) THEN bestMatch
    ELSE LikelyLoop(list, k + 1,
                    IF list[k].IsLikely /\ Better(list[k], bestMatch)
                    THEN list[k] ELSE bestMatch)

\* The second selection loop: every analysis takes part.
\* Mutant of FallbackLoop: the verdict received last is taken.
FallbackLoopLast(list, k, bestMatch) ==
    IF k > Len(list) THEN bestMatch ELSE list[Len(list)]

RECURSIVE FallbackLoop(_, _, _)
FallbackLoop(list, k, bestMatch) ==
    IF k > Len(list) THEN bestMatch
    ELSE FallbackLoop(list, k + 1,
                      IF Better(list[k], bestMatch) THEN list[k] ELSE bestMatch)

\* Mutant of Gather: a failure throws away what was gathered.
GatherDropOnError(list, result) ==
    IF result.Error # NoError THEN <<>>
    ELSE IF result.Analysis # NilAnalysis THEN Append(list, result.Analysis)
    ELSE list

\* The body of "case result := <-resultChan" after the counter: a result
\* with an error is skipped, an analysis is appended.
Gather(list, result) ==
    IF result.Error # NoError THEN list
    ELSE IF result.Analysis # NilAnalysis THEN Append(list, result.Analysis)
    ELSE list

\* Mutant of CancelReturn: cancellation is reported as the aggregate error.
CancelReturnAggregate == [analysis |-> NilAnalysis, err |-> ErrNoCommits]

\* "return nil, ctx.Err()"
CancelReturn == [analysis |-> NilAnalysis, err |-> ErrContext]

\* Mutant of Select: an empty list gives a zero-value analysis, no error.
SelectZeroValue(list) ==
    IF Len(list) = 0 THEN [analysis |-> ZeroAnalysis(0), err |-> NoError]
    ELSE LET likely == LikelyLoop(list, 1, NilAnalysis)
         IN  [analysis |-> IF likely = NilAnalysis
                           THEN FallbackLoop(list, 1, NilAnalysis) ELSE likely,
              err |-> NoError]

\* The code after the drain loop: the (analysis, err) pair returned.
Select(list) ==
    IF Len(list) = 0 THEN [analysis |-> NilAnalysis, err |-> ErrNoCommits]
    ELSE LET likely == LikelyLoop(list, 1, NilAnalysis)
         IN  [analysis |-> IF likely = NilAnalysis
                           THEN FallbackLoop(list, 1, NilAnalysis) ELSE likely,
              err |-> NoError]

\* ------------------------------------------------------------------- state

VARIABLES
    commits,      \* the candidate records passed to AnalyzeBugInCommits
    ctxDone,      \* ctx.Done() is closed
    pc,           \* the coordinator: "spawn", "loop" or "returned"
    task,         \* per goroutine: "none", "ready", "querying", "done", "panicked"
    resultChan,   \* the buffered channel, oldest first
    analyses,     \* the analyses gathered by the drain loop
    completed,    \* the drain loop's counter
    ret,          \* the (analysis, err) pair returned
    panicked,     \* a goroutine panicked: the process is gone
    sent,         \* history: the results each goroutine put on the channel
    drained,      \* history: the goroutines whose result was received, in order
    cancelledEarly, \* history: ctx was cancelled while completed < len(commits)
    answer,       \* history: what the oracle returned to each goroutine
    fnIn,         \* the text a function of the extractor is applied to
    fnOut,        \* what the function returned
    fnPc,         \* "idle", "called" or "returned"
    now,          \* the wall clock, in hours
    lastCheckFile, \* ~/.docu-jarvis/last_update_check: absent, or its ModTime
    command,      \* the docu-jarvis process: "none" or "running"
    checker,      \* the goroutine of run(): "none", "checking", "recording", "done"
    autoChecks,   \* history: the hours at which the last two automatic checks started
    docCall,      \* the fan-out called: [op, items, pre]
    docPc,        \* its caller: "idle", "check", "launch", "range" or "returned"
    launched,     \* the iterations of the launch loop done
    worker,       \* per item: "none", "started", "sending", "sent", "done"
    wg,           \* the counter of the sync.WaitGroup
    docResultChan, \* the buffered channel of ProcessResult, oldest first
    closeCalls,   \* how often close(resultChan) has run
    closer,       \* the closing goroutine: "none", "waiting", "closing", "done"
    successCount, \* the counter of the range loop
    failedFiles,  \* the names the range loop has collected
    docRet,       \* what the fan-out returned
    counted,      \* history: per item, how often the range loop received its result
    docPanic,     \* history: "none", or the run-time panic that ended the process
    streamOp,     \* "none", "ProcessFile" or "getResponse"
    producer,     \* the stream's goroutine: "none", "running", "done"
    messageChan,  \* the messages in the stream's message channel
    messageClosed, \* the message channel is closed
    errorChan,    \* the errors in the stream's error channel
    streamCtxDone, \* ctx.Done() of the streaming call is closed
    streamPc,     \* the select loop: "idle", "select" or "returned"
    messageCount, \* the messages the loop has received
    conversationHistory, \* the turns of the CommitExplainer, as roles
    streamRet,    \* the error the operation returned
    streamLog     \* history: what the stream and the loop did, in order

coordVars == <<commits, ctxDone, pc, task, resultChan, analyses, completed,
               ret, panicked, sent, drained, cancelledEarly, answer>>

fnVars == <<fnIn, fnOut, fnPc>>

updaterVars == <<now, lastCheckFile, command, checker, autoChecks>>

docVars == <<docCall, docPc, launched, worker, wg, docResultChan, closeCalls,
             closer,
             successCount, failedFiles, docRet, counted, docPanic>>

streamVars == <<streamOp, producer, messageChan, messageClosed, errorChan,
                streamCtxDone, streamPc, messageCount, conversationHistory,
                streamRet, streamLog>>

vars == <<coordVars, fnVars, updaterVars, docVars, streamVars>>

\* No call of AnalyzeBugInCommits is in progress.
CoordIdle ==
    /\ commits = <<>>
    /\ ctxDone = FALSE
    /\ pc = "idle"
    /\ task = <<>>
    /\ resultChan = <<>>
    /\ analyses = <<>>
    /\ completed = 0
    /\ ret = [analysis |-> [ptr |-> 0], err |-> "nil"]
    /\ panicked = FALSE
    /\ sent = <<>>
    /\ drained = <<>>
    /\ cancelledEarly = FALSE
    /\ answer = <<>>

\* No function of the extractor is under application.
FnIdle ==
    /\ fnIn = <<>>
    /\ fnOut = <<>>
    /\ fnPc = "idle"

\* No docu-jarvis command has run.
UpdaterIdle ==
    /\ now = 0
    /\ lastCheckFile = -1
    /\ command = "none"
    /\ checker = "none"
    /\ autoChecks = <<>>

\* No fan-out over documents or topics is in progress.
DocsIdle ==
    /\ docCall = [op |-> "none", items |-> 0, pre |-> "ok"]
    /\ docPc = "idle"
    /\ launched = 0
    /\ worker = <<>>
    /\ wg = 0
    /\ docResultChan = <<>>
    /\ closeCalls = 0
    /\ closer = "none"
    /\ successCount = 0
    /\ failedFiles = <<>>
    /\ docRet = [successCount |-> 0, total |-> 0, err |-> "nil"]
    /\ counted = <<>>
    /\ docPanic = "none"

\* No streaming call is in progress.
StreamIdle ==
    /\ streamOp = "none"
    /\ producer = "none"
    /\ messageChan = <<>>
    /\ messageClosed = FALSE
    /\ errorChan = <<>>
    /\ streamCtxDone = FALSE
    /\ streamPc = "idle"
    /\ messageCount = 0
    /\ conversationHistory = <<>>
    /\ streamRet = "nil"
    /\ streamLog = <<>>

totalCommits == Len(commits)

Tasks == 1..totalCommits

RECURSIVE SeqsUpTo(_, _)
SeqsUpTo(S, n) ==
    IF n = 0 THEN {<<>>}
    ELSE LET shorter == SeqsUpTo(S, n - 1)
         IN  shorter \cup {Append(s, x) : s \in {t \in shorter : Len(t) = n - 1}, x \in S}

Init ==
    /\ commits \in SeqsUpTo(Candidates, MaxCommits)
    /\ ctxDone = FALSE
    /\ pc = "spawn"
    /\ task = [i \in 1..Len(commits) |-> "none"]
    /\ resultChan = <<>>
    /\ analyses = <<>>
    /\ completed = 0
    /\ ret = [analysis |-> NilAnalysis, err |-> NoError]
    /\ panicked = FALSE
    /\ sent = [i \in 1..Len(commits) |-> <<>>]
    /\ drained = <<>>
    /\ cancelledEarly = FALSE
    /\ answer = [i \in 1..Len(commits) |-> <<>>]
    /\ FnIdle
    /\ UpdaterIdle
    /\ DocsIdle
    /\ StreamIdle

\* Mutant of CanSend: the channel is made with room for one result.
CanSendCapacityOne == Len(resultChan) < 1

\* "resultChan <- result" by goroutine i; the channel's capacity is
\* totalCommits, a send on a full channel blocks.
CanSend == Len(resultChan) < totalCommits

Send(i, result) ==
    LET msg == [Commit |-> commits[i], Analysis |-> result.Analysis,
                Error |-> result.Error, task |-> i]
    IN  /\ resultChan' = Append(resultChan, msg)
        /\ sent' = [sent EXCEPT ![i] = Append(@, msg)]

\* The range loop: "go func(c string) {...}(commit)" for every commit.
Spawn ==
    /\ ~panicked
    /\ pc = "spawn"
    /\ task' = [i \in Tasks |-> "ready"]
    /\ pc' = "loop"
    /\ UNCHANGED <<fnVars, updaterVars, docVars, streamVars, answer, commits, ctxDone, resultChan, analyses, completed, ret,
                   panicked, sent, drained, cancelledEarly>>

\* Goroutine i runs AnalyzeSingleCommit up to the oracle call.
TaskStart(i) ==
    /\ ~panicked
    /\ task[i] = "ready"
    /\ LET d == DecomposeOf[commits[i]]
       IN  CASE d = "invalid" ->
                  /\ CanSend
                  /\ Send(i, [Analysis |-> NilAnalysis, Error |-> ErrInvalidCommit])
                  /\ task' = [task EXCEPT ![i] = "done"]
                  /\ UNCHANGED panicked
             [] d = "panic" ->
                  /\ panicked' = TRUE
                  /\ task' = [task EXCEPT ![i] = "panicked"]
                  /\ UNCHANGED <<resultChan, sent>>
             [] d = "query" ->
                  /\ task' = [task EXCEPT ![i] = "querying"]
                  /\ UNCHANGED <<panicked, resultChan, sent>>
    /\ UNCHANGED <<fnVars, updaterVars, docVars, streamVars, answer, commits, ctxDone, pc, analyses, completed, ret,
                   drained, cancelledEarly>>

\* Mutant of TaskReturn: the verdict is given the candidate's hash and author.
TaskReturnCopiesCandidate(i) ==
    /\ ~panicked
    /\ task[i] = "querying"
    /\ CanSend
    /\ \E oracle \in OracleReturns :
          /\ LET result == AfterQueryOf[oracle, i]
                 parts  == Split(commits[i], "|")
             IN  Send(i, IF result.Analysis = NilAnalysis THEN result
                         ELSE [result EXCEPT !.Analysis.CommitHash = parts[1],
                                             !.Analysis.Author = parts[2]])
          /\ answer' = [answer EXCEPT ![i] = Append(@, oracle)]
    /\ task' = [task EXCEPT ![i] = "done"]
    /\ UNCHANGED <<fnVars, updaterVars, docVars, streamVars, commits, ctxDone, pc, analyses, completed, ret,
                   panicked, drained, cancelledEarly>>

\* Mutant of TaskReturn: after an oracle error the goroutine asks again.
TaskReturnRetries(i) ==
    /\ ~panicked
    /\ task[i] = "querying"
    /\ CanSend
    /\ \E oracle \in OracleReturns :
          /\ answer' = [answer EXCEPT ![i] = Append(@, oracle)]
          /\ IF oracle.err
             THEN UNCHANGED <<task, resultChan, sent>>
             ELSE /\ Send(i, AfterQueryOf[oracle, i])
                  /\ task' = [task EXCEPT ![i] = "done"]
    /\ UNCHANGED <<fnVars, updaterVars, docVars, streamVars, commits, ctxDone, pc, analyses, completed, ret,
                   panicked, drained, cancelledEarly>>

\* The oracle call of goroutine i returns; the goroutine finishes
\* AnalyzeSingleCommit and sends its result.
TaskReturn(i) ==
    /\ ~panicked
    /\ task[i] = "querying"
    /\ CanSend
    /\ \E oracle \in OracleReturns :
          /\ Send(i, AfterQueryOf[oracle, i])
          /\ answer' = [answer EXCEPT ![i] = Append(@, oracle)]
    /\ task' = [task EXCEPT ![i] = "done"]
    /\ UNCHANGED <<fnVars, updaterVars, docVars, streamVars, commits, ctxDone, pc, analyses, completed, ret,
                   panicked, drained, cancelledEarly>>

\* Mutant of Recv: only a result without error is counted.
RecvCountsVerdictsOnly ==
    /\ ~panicked
    /\ pc = "loop"
    /\ LoopCondition(completed, totalCommits)
    /\ resultChan # <<>>
    /\ LET result == Head(resultChan)
       IN  /\ resultChan' = Tail(resultChan)
           /\ completed' = IF result.Error = NoError THEN completed + 1
                            ELSE completed
           /\ drained' = Append(drained, result.task)
           /\ analyses' = Gather(analyses, result)
    /\ UNCHANGED <<fnVars, updaterVars, docVars, streamVars, answer, commits, ctxDone, pc, task, ret, panicked, sent,
                   cancelledEarly>>

\* The select takes "case result := <-resultChan".
Recv ==
    /\ ~panicked
    /\ pc = "loop"
    /\ LoopCondition(completed, totalCommits)
    /\ resultChan # <<>>
    /\ LET result == Head(resultChan)
       IN  /\ resultChan' = Tail(resultChan)
           /\ completed' = completed + 1
           /\ drained' = Append(drained, result.task)
           /\ analyses' = Gather(analyses, result)
    /\ UNCHANGED <<fnVars, updaterVars, docVars, streamVars, answer, commits, ctxDone, pc, task, ret, panicked, sent,
                   cancelledEarly>>

\* Mutant of CtxDone: on cancellation the selection runs over what was
\* gathered.
CtxDoneSelects ==
    /\ ~panicked
    /\ pc = "loop"
    /\ LoopCondition(completed, totalCommits)
    /\ ctxDone
    /\ ret' = Select(analyses)
    /\ pc' = "returned"
    /\ UNCHANGED <<fnVars, updaterVars, docVars, streamVars, answer, commits, ctxDone, task,
                   resultChan, analyses, completed, panicked, sent, drained,
                   cancelledEarly>>

\* The select takes "case <-ctx.Done()".
CtxDone ==
    /\ ~panicked
    /\ pc = "loop"
    /\ LoopCondition(completed, totalCommits)
    /\ ctxDone
    /\ ret' = CancelReturn
    /\ pc' = "returned"
    /\ UNCHANGED <<fnVars, updaterVars, docVars, streamVars, answer, commits, ctxDone, task, resultChan, analyses,
                   completed, panicked, sent, drained, cancelledEarly>>

\* The drain loop ends; the selection runs and the function returns.
Finish ==
    /\ ~panicked
    /\ pc = "loop"
    /\ ~LoopCondition(completed, totalCommits)
    /\ ret' = Select(analyses)
    /\ pc' = "returned"
    /\ UNCHANGED <<fnVars, updaterVars, docVars, streamVars, answer, commits, ctxDone, task, resultChan, analyses,
                   completed, panicked, sent, drained, cancelledEarly>>

\* The caller's context is cancelled (at any moment before the return).
Cancel ==
    /\ ~panicked
    /\ ~ctxDone
    /\ pc # "returned"
    /\ ctxDone' = TRUE
    /\ cancelledEarly' = (completed < totalCommits)
    /\ UNCHANGED <<fnVars, updaterVars, docVars, streamVars, answer, commits, pc, task, resultChan, analyses, completed,
                   ret, panicked, sent, drained>>

Next ==
    \/ Spawn
    \/ \E i \in Tasks : TaskStart(i)
    \/ \E i \in Tasks : TaskReturn(i)
    \/ Recv
    \/ CtxDone
    \/ Finish
    \/ Cancel

Spec == Init /\ [][Next]_vars

\* The coordinator is the goroutine of the caller: it is scheduled whenever
\* it can take a step.  Nothing is assumed of the oracle or of the tasks.
Coordinator == Spawn \/ Recv \/ CtxDone \/ Finish

FairSpec == Spec /\ WF_vars(Coordinator)

\* ------------------------------------------------------------ vocabulary

\* The analyses the drain loop has gathered.
Gathered == {analyses[k] : k \in 1..Len(analyses)}

\* The drain loop ran to its end and the function returned.
DrainedAll == pc = "returned" /\ completed = totalCommits

\* The analyses the goroutines of this call have produced.
Produced ==
    UNION {{sent[i][k].Analysis : k \in 1..Len(sent[i])} : i \in Tasks}
        \ {NilAnalysis}

\* The goroutines whose result was received as a failure.
DrainedFailures ==
    {i \in Tasks : /\ \E k \in 1..Len(drained) : drained[k] = i
                   /\ sent[i][1].Error # NoError}

\* The analyses of the results received so far, failures left out, in the
\* order of receipt.
RECURSIVE ReceivedAnalyses(_)
ReceivedAnalyses(k) ==
    IF k = 0 THEN <<>>
    ELSE LET result == sent[drained[k]][1]
         IN  IF result.Error = NoError
             THEN Append(ReceivedAnalyses(k - 1), result.Analysis)
             ELSE ReceivedAnalyses(k - 1)

\* A candidate that does not decompose: fewer than four fields, or a hash
\* field shorter than the eight characters the task logs.
Malformed(commit) ==
    \/ Len(Split(commit, "|")) < 4
    \/ Len(Split(commit, "|")[1]) < 8

\* ------------------------------------------------------------------ claims

\* C1: when the drain loop has received every outcome and some gathered
\* verdict is likely, the returned verdict is a gathered likely verdict whose
\* confidence is the maximum over the gathered likely verdicts, whatever the
\* confidences of the unlikely ones.
C1_LikelyMaxReturned ==
    (DrainedAll /\ \E a \in Gathered : a.IsLikely)
        => /\ ret.err = NoError
           /\ ret.analysis \in Gathered
           /\ ret.analysis.IsLikely
           /\ \A a \in Gathered : a.IsLikely => a.Confidence <= ret.analysis.Confidence

\* C1 witness: a likely verdict is returned although an unlikely one with a
\* higher confidence was gathered.
C1_Witness ==
    /\ DrainedAll
    /\ ret.err = NoError
    /\ \E a \in Gathered : /\ ~a.IsLikely
                           /\ ret.analysis \in Gathered
                           /\ ret.analysis.IsLikely
                           /\ a.Confidence > ret.analysis.Confidence

\* C2: when the drain loop has received every outcome, verdicts were gathered
\* and none is likely, the returned verdict is a gathered verdict of maximum
\* confidence.
C2_FallbackMaxReturned ==
    (DrainedAll /\ Gathered # {} /\ \A a \in Gathered : ~a.IsLikely)
        => /\ ret.err = NoError
           /\ ret.analysis \in Gathered
           /\ \A a \in Gathered : a.Confidence <= ret.analysis.Confidence

\* C2 witness: two unlikely verdicts of confidence 0 and 55, the one of 55
\* is returned.
C2_Witness ==
    /\ DrainedAll
    /\ Len(analyses) = 2
    /\ \A a \in Gathered : ~a.IsLikely
    /\ {a.Confidence : a \in Gathered} = {0, 55}
    /\ ret.err = NoError
    /\ ret.analysis \in Gathered
    /\ ret.analysis.Confidence = 55

\* C3: the selection runs only after exactly len(commits) outcomes have been
\* received, each goroutine's single outcome once; for no commits the loop is
\* never entered (neither select case can be taken) and the function returns
\* the aggregate error.
C3_SelectionAfterAllDrained ==
    /\ (pc = "returned" /\ ret.err # ErrContext)
           => /\ completed = totalCommits
              /\ Len(drained) = totalCommits
              /\ \A i \in Tasks :
                     /\ Len(sent[i]) = 1
                     /\ Cardinality({k \in 1..Len(drained) : drained[k] = i}) = 1
    /\ (totalCommits = 0 /\ pc = "loop")
           => (ENABLED Finish) /\ ~(ENABLED Recv) /\ ~(ENABLED CtxDone)
    /\ (totalCommits = 0 /\ pc = "returned")
           => /\ ret = [analysis |-> NilAnalysis, err |-> ErrNoCommits]
              /\ drained = <<>>

\* C3 witness: the selection has run for the largest batch, without any
\* cancellation.
C3_Witness ==
    /\ pc = "returned"
    /\ ~ctxDone
    /\ totalCommits = MaxCommits
    /\ Len(drained) = MaxCommits

\* C4 (as claimed): whenever the context was cancelled while fewer than
\* len(commits) outcomes had been received, the function returns the
\* context's error.
C4_CancelAlwaysReported ==
    (pc = "returned" /\ cancelledEarly)
        => ret = [analysis |-> NilAnalysis, err |-> ErrContext]

\* C5: the function returns either a verdict one of its goroutines produced,
\* with a nil error, or a nil verdict with an error; when every outcome was
\* received and no goroutine produced a verdict the error is the aggregate
\* one.
C5_VerdictOrError ==
    pc = "returned"
        => /\ \/ ret.err = NoError /\ ret.analysis \in Produced
              \/ ret.err \in {ErrNoCommits, ErrContext} /\ ret.analysis = NilAnalysis
           /\ (completed = totalCommits /\ Produced = {}) => ret.err = ErrNoCommits

\* C5 witness: every task of a batch of at least two failed, every outcome
\* was received, and the aggregate error is returned.
C5_Witness ==
    /\ DrainedAll
    /\ totalCommits >= 2
    /\ Produced = {}
    /\ ret = [analysis |-> NilAnalysis, err |-> ErrNoCommits]

\* C6 (as claimed): no goroutine sends more than one outcome, and a goroutine
\* that has ended has sent exactly one.
C6_OneOutcomePerTask ==
    \A i \in Tasks :
        /\ Len(sent[i]) <= 1
        /\ task[i] \in {"done", "panicked"} => Len(sent[i]) = 1

\* C7: a failure outcome is only counted: at every moment the gathered
\* analyses are those of the received successful outcomes in the order of
\* receipt, a received failure never makes the function return (it returns
\* only at the end of the loop or on cancellation), a task's error is never
\* the returned error, and when the loop ends with a verdict gathered one is
\* returned with a nil error.
C7_FailureDoesNotStopFanOut ==
    /\ completed = Len(drained)
    /\ analyses = ReceivedAnalyses(Len(drained))
    /\ (pc = "returned" /\ DrainedFailures # {})
           => \/ completed = totalCommits
              \/ ret = [analysis |-> NilAnalysis, err |-> ErrContext] /\ ctxDone
    /\ ret.err \notin {ErrInvalidCommit, ErrAnalysis, ErrNoJSON}
    /\ (DrainedAll /\ Gathered # {}) => ret.err = NoError /\ ret.analysis \in Gathered

\* C7 witness: of three tasks two failed and one gave a likely verdict of
\* confidence 40, which is returned with a nil error.
C7_Witness ==
    /\ DrainedAll
    /\ totalCommits = 3
    /\ Cardinality(DrainedFailures) = 2
    /\ Len(analyses) = 1
    /\ ret.err = NoError
    /\ ret.analysis = analyses[1]
    /\ ret.analysis.IsLikely
    /\ ret.analysis.Confidence = 40

\* C8 (as claimed): a task given a malformed candidate ends with a failure
\* outcome for that commit, and the process never goes down.
C8_MalformedIsTaskFailure ==
    /\ ~panicked
    /\ \A i \in Tasks :
           (Malformed(commits[i]) /\ task[i] \notin {"none", "ready"})
               => /\ task[i] = "done"
                  /\ Len(sent[i]) = 1
                  /\ sent[i][1].Error # NoError

\* C9 (as claimed): once the context is cancelled with outcomes still to be
\* received, the function eventually returns.
C9_ReturnsAfterCancel ==
    (ctxDone /\ completed < totalCommits) ~> (pc = "returned")

\* C10 (as claimed): when no task has produced a verdict (here: every task
\* has ended in a failure), the function returns the aggregate error.
C10_AlwaysAggregateError ==
    (pc = "returned" /\ \A i \in Tasks : /\ task[i] = "done"
                                         /\ sent[i][1].Error # NoError)
        => ret = [analysis |-> NilAnalysis, err |-> ErrNoCommits]

\* C10 (amended): when no task has produced a verdict the function never
\* returns a verdict: it returns the aggregate error when every outcome was
\* received, and the context's error when it gave up on cancellation.
C10_NoVerdictMeansError ==
    (pc = "returned" /\ Produced = {})
        => /\ ret.analysis = NilAnalysis
           /\ \/ completed = totalCommits /\ ret.err = ErrNoCommits
              \/ completed < totalCommits /\ ctxDone /\ ret.err = ErrContext

\* C10 witness: every task has ended in a failure and the function gave up
\* on cancellation with the context's error.
C10_Witness ==
    /\ pc = "returned"
    /\ totalCommits >= 1
    /\ \A i \in Tasks : task[i] = "done" /\ sent[i][1].Error # NoError
    /\ ret = [analysis |-> NilAnalysis, err |-> ErrContext]

\* ------------------------------------------------- the extractor on its own

\* The longest reply text, counted in pieces.
MaxPieces == 4

\* The pieces the reply texts are put together from: the two fences, the
\* brackets, a letter, a blank and a whole object.
Pieces ==
    {JsonFence, Fence, <<"{">>, <<"}">>, <<"[">>, <<"]">>, <<"x">>, <<" ">>,
     <<"{", "x", "}">>}

RECURSIVE Concat(_)
Concat(parts) ==
    IF parts = <<>> THEN <<>> ELSE Head(parts) \o Concat(Tail(parts))

PieceTexts == {Concat(parts) : parts \in SeqsUpTo(Pieces, MaxPieces)}

\* The confidence values the oracle writes, as texts.
Numerals == {<<"-", "5">>, <<"-", "1">>, <<"0">>, <<"1", "0", "0">>, <<"1", "0", "1">>, <<"1", "5", "0">>}

\* A bare object whose confidence is the numeral.
ConfidenceText(numeral) ==
    <<"{", "\"", "i", "s", "_", "l", "i", "k", "e", "l", "y", "\"", ":", " ", "t", "r", "u", "e", ",", " ", "\"", "c", "o", "n", "f", "i", "d", "e", "n", "c", "e", "\"", ":", " ">> \o numeral \o <<"}">>

\* Confidence values that are not plain numbers: a number with a unit, a
\* quoted one, a signed one, words, nothing.
Unnumeric == {<<"8", "5", "%">>,
              <<"8", "5">>,
              <<"\"", "8", "5", "%", "\"">>,
              <<"+", "7">>,
              <<"7", " ", "a", "p", "p", "l", "e", "s">>,
              <<"0", "0", "4", "2">>,
              <<"h", "i", "g", "h">>,
              <<"a", "b", "c", "9">>,
              <<>>,
              <<"-">>,
              <<"%", "8", "5">>}

ConfidenceTexts == {ConfidenceText(numeral) : numeral \in Numerals \cup Unnumeric}

\* The values the oracle writes for is_likely.
LikelyValues == {<<"t", "r", "u", "e">>,
                 <<"f", "a", "l", "s", "e">>,
                 <<"T", "r", "u", "e">>,
                 <<"T", "R", "U", "E">>,
                 <<"1">>,
                 <<"y", "e", "s">>,
                 <<>>,
                 <<"\"", "t", "r", "u", "e", "\"">>,
                 <<"\"", "t", "r", "u", "e", "\"", " ">>,
                 <<" ", "t", "r", "u", "e">>,
                 <<"\"", "T", "r", "u", "e", "\"">>,
                 <<"\"", " ", "t", "r", "u", "e", "\"">>,
                 <<"t", "r", "u", "e", "l", "y">>,
                 <<"\"", "f", "a", "l", "s", "e", "\"">>}

\* A bare object whose is_likely is the value.
LikelyText(value) ==
    <<"{", "\"", "c", "o", "n", "f", "i", "d", "e", "n", "c", "e", "\"", ":", " ", "5", "0", ",", " ", "\"", "i", "s", "_", "l", "i", "k", "e", "l", "y", "\"", ":", " ">> \o value \o <<"}">>

\* A bare object without the key is_likely.
TextWithoutLikely == <<"{", "\"", "c", "o", "n", "f", "i", "d", "e", "n", "c", "e", "\"", ":", " ", "5", "0", "}">>

LikelyTexts == {LikelyText(value) : value \in LikelyValues} \cup {TextWithoutLikely}

ExtractInputs ==
    PieceTexts \cup ConfidenceTexts \cup LikelyTexts \cup ReplyTexts
        \cup {TextUnlikely30}

\* A goroutine has received the reply text fnIn, in one text block of one
\* message, from the oracle.
ExtractInit ==
    /\ CoordIdle
    /\ UpdaterIdle
    /\ DocsIdle
    /\ StreamIdle
    /\ fnIn \in ExtractInputs
    /\ fnOut = <<>>
    /\ fnPc = "called"

\* AnalyzeSingleCommit runs from the return of the oracle call to its own
\* return: jsonResponse is the payload it located, result what it returns.
Extract ==
    /\ fnPc = "called"
    /\ LET messages == << <<fnIn>> >>
       IN  fnOut' = [jsonResponse |-> LocatePayload(messages),
                     result |-> AfterQuery([err |-> FALSE, messages |-> messages], 1)]
    /\ fnPc' = "returned"
    /\ UNCHANGED <<fnIn, coordVars, updaterVars, docVars, streamVars>>

ExtractNext == Extract

ExtractSpec == ExtractInit /\ [][ExtractNext]_vars

\* --------------------------------------------------------------- C11

\* C11: every verdict a task produces has its Confidence in 0..100: a
\* confidence the oracle wrote below 0 or above 100 is clamped or replaced
\* by 0 before the verdict leaves AnalyzeSingleCommit.
C11_ConfidenceInRange ==
    (fnPc = "returned" /\ fnOut.result.Error = NoError)
        => fnOut.result.Analysis.Confidence \in 0..100

\* --------------------------------------------------------------- C12

\* sub stands in text at the 0-based position p.
Occurs(text, sub, p) ==
    /\ p + Len(sub) <= Len(text)
    /\ SubSeq(text, p + 1, p + Len(sub)) = sub

\* The positions from "from" on at which sub stands in text.
Places(text, sub, from) == {p \in from..Len(text) : Occurs(text, sub, p)}

Least(S) == CHOOSE p \in S : \A q \in S : p <= q

Greatest(S) == CHOOSE p \in S : \A q \in S : q <= p

\* The payload the three strategies give for a reply text, tried in their
\* order; a fenced block counts when minContent characters or more lie
\* between its fence-open and its fence-close.  The empty text = no payload.
PayloadByPriority(replyText, minContent) ==
    LET text   == TrimSpace(replyText)
        opens  == Places(text, JsonFence, 0)
        closes == IF opens = {} THEN {}
                  ELSE Places(text, Fence, Least(opens) + Len(JsonFence))
        fenced == /\ closes # {}
                  /\ Least(closes) - (Least(opens) + Len(JsonFence)) >= minContent
        lefts  == Places(text, <<"{">>, 0)
        rights == Places(text, <<"}">>, 0)
    IN  IF fenced
        THEN TrimSpace(SubSeq(text, Least(opens) + Len(JsonFence) + 1, Least(closes)))
        ELSE IF text # <<>> /\ Head(text) = "{" /\ text[Len(text)] = "}"
        THEN text
        ELSE IF lefts # {} /\ rights # {} /\ Least(lefts) < Greatest(rights)
        THEN TrimSpace(SubSeq(text, Least(lefts) + 1, Greatest(rights) + 1))
        ELSE <<>>

\* C12 as stated: the payload located in a reply text is that of the first
\* strategy that succeeds, in the order fenced block (the content between
\* the first json fence-open and the next fence-close), fully bracketed
\* text ('{' first and '}' last; the array form is the subject of C24),
\* first-'{' to last-'}' span; any closed json fence makes the first succeed.
C12_FirstStrategyWins ==
    fnPc = "returned" => fnOut.jsonResponse = PayloadByPriority(fnIn, 0)

\* C12, amended: the same priority order, but the fenced block succeeds only
\* when at least one character lies between the fence-open and the
\* fence-close; an empty fence (the close right after the open) leaves the
\* text to the next strategies.
C12_FirstStrategyWinsNonEmptyFence ==
    fnPc = "returned" => fnOut.jsonResponse = PayloadByPriority(fnIn, 1)

\* A closed json fence around "x", followed by an object: the payload is
\* the content of the fence.
C12_Witness ==
    /\ fnPc = "returned"
    /\ fnIn = Concat(<<JsonFence, <<"x">>, Fence, <<"{", "x", "}">>>>)
    /\ fnOut.jsonResponse = <<"x">>

\* --------------------------------------------------------------- C13

\* The characters of a text.
Chars(text) == {text[k] : k \in 1..Len(text)}

\* C13: a reply text that holds neither '{' nor '}' never yields a payload:
\* the task returns the 'did not return expected JSON response' failure,
\* with or without a json fence in the text.
C13_NoBracesNoPayload ==
    (fnPc = "returned" /\ Chars(fnIn) \cap {"{", "}"} = {})
        => /\ fnOut.jsonResponse = <<>>
           /\ fnOut.result = [Analysis |-> NilAnalysis, Error |-> ErrNoJSON]

\* --------------------------------------------------------------- C14

\* The reply texts in which no strategy finds a payload.
WithoutPayload == [text \in ReplyTexts |-> PayloadByPriority(text, 1) = <<>>]

\* The oracle answered goroutine i with messages in whose text no strategy
\* finds a payload.
AnsweredWithoutPayload(i) ==
    /\ answer[i] # <<>>
    /\ ~answer[i][1].err
    /\ WithoutPayload[answer[i][1].messages[1][1]]

\* C14: when the oracle answers but its text holds no payload the task
\* sends a failure, as it does for an oracle error, and no verdict of that
\* task is gathered; a call with one candidate whose reply is plain prose
\* returns the error 'no commits could be analyzed'.
C14_NoPayloadIsFailure ==
    /\ \A i \in Tasks :
          AnsweredWithoutPayload(i)
              => /\ Len(sent[i]) = 1
                 /\ sent[i][1].Analysis = NilAnalysis
                 /\ sent[i][1].Error # NoError
                 /\ \A a \in Gathered : a.ptr # i
    /\ (totalCommits = 1 /\ DrainedAll /\ AnsweredWithoutPayload(1))
          => ret = [analysis |-> NilAnalysis, err |-> ErrNoCommits]

\* One candidate, answered with prose; the call returned the aggregate error.
C14_Witness ==
    /\ totalCommits = 1
    /\ DrainedAll
    /\ answer[1] = <<[err |-> FALSE, messages |-> << <<TextProse>> >>]>>
    /\ Chars(TextProse) \cap {"{", "}"} = {}
    /\ sent[1][1].Error = ErrNoJSON
    /\ ret.err = ErrNoCommits

\* --------------------------------------------- splitJSONPairs on its own

\* The longest payload, counted in tokens.
MaxTokens == 4

\* The tokens the payloads are put together from: four complete quoted
\* strings (plain, holding a comma, ending in an escaped backslash, holding
\* an escaped quote), the punctuation and a blank.
StrPlain     == <<"\"", "k", "\"">>
StrComma     == <<"\"", "b", ",", "c", "\"">>
StrBackslash == <<"\"", "f", "\\", "\\", "\"">>
StrEscQuote  == <<"\"", "d", "\\", "\"", "e", "\"">>
Colon        == <<":">>
Comma        == <<",">>

Tokens ==
    {StrPlain, StrComma, StrBackslash, StrEscQuote, Colon, Comma,
     <<"{">>, <<"}">>, <<"[">>, <<"]">>, <<" ">>}

\* The payload (between its outer braces), as the sequence of its tokens.
SplitInit ==
    /\ CoordIdle
    /\ UpdaterIdle
    /\ DocsIdle
    /\ StreamIdle
    /\ fnIn \in SeqsUpTo(Tokens, MaxTokens)
    /\ fnOut = <<>>
    /\ fnPc = "called"

\* splitJSONPairs is applied to the text of the payload.
SplitPairs ==
    /\ fnPc = "called"
    /\ fnOut' = splitJSONPairs(Concat(fnIn))
    /\ fnPc' = "returned"
    /\ UNCHANGED <<fnIn, coordVars, updaterVars, docVars, streamVars>>

SplitNext == SplitPairs

SplitSpec == SplitInit /\ [][SplitNext]_vars

\* --------------------------------------------------------------- C15

\* The nesting depth after the first k tokens: brackets opened minus
\* brackets closed (a bracket inside a quoted string is part of that token).
Depth(tokens, k) ==
    Cardinality({j \in 1..k : tokens[j] \in {<<"{">>, <<"[">>}})
        - Cardinality({j \in 1..k : tokens[j] \in {<<"}">>, <<"]">>}})

\* The commas of the payload that stand outside every quoted string and at
\* nesting depth 0.
TopLevelCommas(tokens) ==
    {k \in 1..Len(tokens) : tokens[k] = Comma /\ Depth(tokens, k - 1) = 0}

\* The tokens from position k on, cut at the commas of P: the trimmed text
\* of each part, "part" being the tokens of the part under construction.
RECURSIVE PartsAt(_, _, _, _)
PartsAt(tokens, P, k, part) ==
    IF k > Len(tokens) THEN <<TrimSpace(Concat(part))>>
    ELSE IF k \in P
    THEN <<TrimSpace(Concat(part))>> \o PartsAt(tokens, P, k + 1, <<>>)
    ELSE PartsAt(tokens, P, k + 1, Append(part, tokens[k]))

\* pairs is the payload cut at the commas of P; an empty last part may be
\* left out.
CutAt(tokens, P, pairs) ==
    LET parts == PartsAt(tokens, P, 1, <<>>)
    IN  \/ pairs = parts
        \/ parts[Len(parts)] = <<>> /\ pairs = SubSeq(parts, 1, Len(parts) - 1)

\* C15: splitJSONPairs cuts the payload only at commas outside quoted
\* strings and at nesting depth 0 of {} and []: a comma inside a quoted
\* value or inside a nested object or array never produces an extra pair.
C15_SplitsOnlyAtTopLevelCommas ==
    fnPc = "returned"
        => \E P \in SUBSET TopLevelCommas(fnIn) : CutAt(fnIn, P, fnOut)

\* ------------------------------------------------- the automatic update check

\* The hours the clock runs for.
MaxHours == 26

\* 24*time.Hour, in hours.
HoursPerDay == 24

\* updater.ShouldCheckForUpdates: no last_update_check file, or one whose
\* ModTime lies more than 24 hours back.
ShouldCheckForUpdates ==
    IF lastCheckFile = -1 THEN TRUE
    ELSE now - lastCheckFile > HoursPerDay

UpdateInit ==
    /\ CoordIdle
    /\ FnIdle
    /\ UpdaterIdle
    /\ DocsIdle
    /\ StreamIdle

\* A docu-jarvis command (not -help, -config, -version or -update) starts
\* and run() reaches the test of ShouldCheckForUpdates; when it holds the
\* goroutine that checks is started.
RunCommand ==
    /\ command = "none"
    /\ command' = "running"
    /\ IF ShouldCheckForUpdates
       THEN /\ checker' = "checking"
            /\ autoChecks' = IF Len(autoChecks) < 2 THEN Append(autoChecks, now)
                             ELSE <<autoChecks[2], now>>
       ELSE UNCHANGED <<checker, autoChecks>>
    /\ UNCHANGED <<now, lastCheckFile, coordVars, fnVars, docVars, streamVars>>

\* In the goroutine, AutoCheckForUpdates returns (with or without a release).
AutoCheckReturns ==
    /\ command = "running"
    /\ checker = "checking"
    /\ checker' = "recording"
    /\ UNCHANGED <<now, lastCheckFile, command, autoChecks, coordVars, fnVars, docVars, streamVars>>

\* In the goroutine, UpdateLastCheckTime writes the file.
UpdateLastCheckTime ==
    /\ command = "running"
    /\ checker = "recording"
    /\ lastCheckFile' = now
    /\ checker' = "done"
    /\ UNCHANGED <<now, command, autoChecks, coordVars, fnVars, docVars, streamVars>>

\* run() returns and the process exits; its goroutine ends with it,
\* wherever it is.
Exit ==
    /\ command = "running"
    /\ command' = "none"
    /\ checker' = "none"
    /\ UNCHANGED <<now, lastCheckFile, autoChecks, coordVars, fnVars, docVars, streamVars>>

\* An hour passes.
Tick ==
    /\ now < MaxHours
    /\ now' = now + 1
    /\ UNCHANGED <<lastCheckFile, command, checker, autoChecks, coordVars, fnVars, docVars, streamVars>>

UpdateNext ==
    \/ RunCommand
    \/ AutoCheckReturns
    \/ UpdateLastCheckTime
    \/ Exit
    \/ Tick

UpdateSpec == UpdateInit /\ [][UpdateNext]_vars

\* --------------------------------------------------------------- C16

\* C16: automatic update checks happen at most once per 24 hours: the start
\* of an automatic check is recorded, and no command within the following
\* 24 hours starts another one.
C16_AtMostOncePerDay ==
    Len(autoChecks) = 2 => autoChecks[2] - autoChecks[1] > HoursPerDay

\* --------------------------------------------------------------- C17

\* The deciding tier of a list of verdicts, as positions: the likely ones
\* when there is one, all of them otherwise.
DecidingTier(list) ==
    IF \E k \in 1..Len(list) : list[k].IsLikely
    THEN {k \in 1..Len(list) : list[k].IsLikely}
    ELSE 1..Len(list)

\* The positions of the deciding tier that hold its maximum confidence.
TopOfTier(list) ==
    {k \in DecidingTier(list) :
        \A j \in DecidingTier(list) : list[j].Confidence <= list[k].Confidence}

\* C17: ties are decided by arrival: of the verdicts of the deciding tier
\* (the likely ones, or all when none is likely) that share the maximum
\* confidence, the one received first from the channel is returned.
C17_TiesKeepFirstDrained ==
    (DrainedAll /\ ret.err = NoError)
        => LET arrived == ReceivedAnalyses(Len(drained))
           IN  /\ TopOfTier(arrived) # {}
               /\ ret.analysis = arrived[Least(TopOfTier(arrived))]

\* Two likely verdicts of the same confidence, the goroutine of the second
\* commit received first: its verdict is the one returned.
C17_Witness ==
    /\ DrainedAll
    /\ ret.err = NoError
    /\ drained = <<2, 1>>
    /\ sent[1][1].Error = NoError /\ sent[2][1].Error = NoError
    /\ sent[1][1].Analysis.IsLikely /\ sent[2][1].Analysis.IsLikely
    /\ sent[1][1].Analysis.Confidence = sent[2][1].Analysis.Confidence
    /\ ret.analysis = sent[2][1].Analysis

\* --------------------------------------------------------------- C18

\* The deciding tier of a set of verdicts: the likely ones when there is
\* one, all of them otherwise.
TierOf(verdicts) ==
    IF \E a \in verdicts : a.IsLikely THEN {a \in verdicts : a.IsLikely}
    ELSE verdicts

\* No two verdicts of the deciding tier have the same confidence.
NoTies(verdicts) ==
    \A a, b \in TierOf(verdicts) : a # b => a.Confidence # b.Confidence

\* C18: without cancellation, and with no two verdicts of the deciding tier
\* of equal confidence, what AnalyzeBugInCommits returns is a function of
\* the set of outcomes the tasks produced: the one verdict of the deciding
\* tier with the highest confidence (the aggregate error when no task
\* produced a verdict), whatever the order of the commits and the order in
\* which the outcomes were received.
C18_ResultIndependentOfOrder ==
    (DrainedAll /\ NoTies(Produced))
        => ret = IF Produced = {}
                 THEN [analysis |-> NilAnalysis, err |-> ErrNoCommits]
                 ELSE [analysis |-> CHOOSE a \in TierOf(Produced) :
                                      \A b \in TierOf(Produced) :
                                          b.Confidence <= a.Confidence,
                       err |-> NoError]

\* Three verdicts without a tie, received in an order that is not that of
\* the commits; the one returned was received second.
C18_Witness ==
    /\ DrainedAll
    /\ Cardinality(TierOf(Produced)) >= 2
    /\ NoTies(Produced)
    /\ drained = <<3, 1, 2>>
    /\ ret.err = NoError
    /\ ret.analysis.ptr = 1

\* --------------------------------------------------------------- C19

\* C19: a send on the result channel never blocks: the channel never holds
\* more than len(commits) results, and as long as the process lives every
\* goroutine that still has its result to send can send it at once, also
\* after AnalyzeBugInCommits has returned on cancellation.
C19_SendNeverBlocks ==
    LET pending == {i \in Tasks : task[i] \in {"ready", "querying"}}
    IN  /\ Len(resultChan) + Cardinality(pending) <= totalCommits
        /\ pending # {} => CanSend

\* AnalyzeBugInCommits returned the cancellation error before it received
\* anything; every goroutine has sent since and ended, the channel is full.
C19_Witness ==
    /\ pc = "returned"
    /\ ret.err = ErrContext
    /\ completed = 0
    /\ totalCommits >= 2
    /\ Len(resultChan) = totalCommits
    /\ \A i \in Tasks : task[i] = "done"

\* --------------------------------------------------------------- C20

\* AnalyzeBugInCommits returned before it had received every outcome: it
\* gave up on cancellation.
GaveUp == pc = "returned" /\ completed < totalCommits

\* C20 as stated: when the coordinator gives up on cancellation, the
\* tie-break runs over the verdicts gathered until then and its choice is
\* what the call returns.
C20_CancelSelectsGathered ==
    (GaveUp /\ Gathered # {})
        => /\ ret.err = NoError
           /\ TopOfTier(analyses) # {}
           /\ ret.analysis = analyses[Least(TopOfTier(analyses))]

\* C20, amended: when the coordinator gives up on cancellation no tie-break
\* runs: the verdicts gathered until then are dropped and the call returns
\* no verdict and the cancellation error of the context.
C20_CancelDropsGathered ==
    GaveUp => /\ ctxDone
              /\ ret = [analysis |-> NilAnalysis, err |-> ErrContext]

\* The coordinator gave up after it had gathered a likely verdict; it
\* returned the cancellation error and no verdict.
C20_Witness ==
    /\ GaveUp
    /\ \E a \in Gathered : a.IsLikely
    /\ ret = [analysis |-> NilAnalysis, err |-> ErrContext]

\* --------------------------------------------------------------- C21

\* AnalyzeBugInCommits returned from its selection, not from the select.
ReturnedFromSelection ==
    pc = "returned" /\ ret.err \in {NoError, ErrNoCommits}

\* C21: the progress counter is at every moment the number of outcomes
\* received so far, verdicts and failures alike (so it goes 1, 2, ..., k by
\* steps of one), it never exceeds len(commits), it is len(commits) when
\* the selection runs, and what the selection returns is decided by the
\* gathered verdicts alone.
C21_ProgressCountsDrained ==
    /\ completed = Len(drained)
    /\ completed <= totalCommits
    /\ ReturnedFromSelection
          => /\ completed = totalCommits
             /\ ret = IF analyses = <<>>
                      THEN [analysis |-> NilAnalysis, err |-> ErrNoCommits]
                      ELSE [analysis |-> analyses[Least(TopOfTier(analyses))],
                            err |-> NoError]

\* Three outcomes received, a failure and a verdict among them; the counter
\* stands at three and the selection has run.
C21_Witness ==
    /\ totalCommits = 3
    /\ completed = 3
    /\ ReturnedFromSelection
    /\ DrainedFailures # {}
    /\ Gathered # {}

\* --------------------------------------------------------------- C22

\* The candidates with fewer than four fields.
FewFields == [commit \in Candidates |-> Len(Split(commit, "|")) < 4]

\* C22: the oracle is asked at most once for a commit (a goroutine whose
\* call is in flight has no answer yet, and no goroutine ever has two), it
\* is never asked for a candidate with fewer than four fields, and an
\* oracle error is sent on as that commit's failure, without a second call.
C22_OneQueryNoRetry ==
    \A i \in Tasks :
        /\ Len(answer[i]) <= 1
        /\ task[i] = "querying" => answer[i] = <<>>
        /\ FewFields[commits[i]]
              => answer[i] = <<>> /\ task[i] # "querying"
        /\ (answer[i] # <<>> /\ answer[i][1].err)
              => /\ task[i] = "done"
                 /\ Len(sent[i]) = 1
                 /\ sent[i][1].Analysis = NilAnalysis
                 /\ sent[i][1].Error = ErrAnalysis

\* Two candidates, the first with three fields, the second answered with an
\* oracle error; both failures sent, the oracle asked once.
C22_Witness ==
    /\ totalCommits = 2
    /\ commits[1] = CommitFewFields
    /\ answer[1] = <<>> /\ sent[1] # <<>>
    /\ Len(answer[2]) = 1 /\ answer[2][1].err
    /\ task[2] = "done"
    /\ sent[2][1].Error = ErrAnalysis

\* --------------------------------------------------------------- C23

\* Exactly one of the two variants of a result is populated.
OneVariant(result) ==
    (result.Analysis # NilAnalysis) # (result.Error # NoError)

\* C23: every CommitAnalysisResult put on the result channel has either a
\* non-nil Analysis and a nil Error, or a nil Analysis and a non-nil Error.
C23_ExactlyOneVariant ==
    /\ \A k \in 1..Len(resultChan) : OneVariant(resultChan[k])
    /\ \A i \in Tasks : \A k \in 1..Len(sent[i]) : OneVariant(sent[i][k])

\* The channel holds a verdict and a failure at once.
C23_Witness ==
    /\ \E k \in 1..Len(resultChan) :
          resultChan[k].Analysis # NilAnalysis /\ resultChan[k].Error = NoError
    /\ \E k \in 1..Len(resultChan) :
          resultChan[k].Analysis = NilAnalysis /\ resultChan[k].Error # NoError

\* --------------------------------------------------------------- C24

\* The text holds a json fence-open, a fence-close after it and at least
\* one character between the two.
FenceApplies(text) ==
    LET opens  == Places(text, JsonFence, 0)
        closes == IF opens = {} THEN {}
                  ELSE Places(text, Fence, Least(opens) + Len(JsonFence))
    IN  closes # {} /\ Least(closes) > Least(opens) + Len(JsonFence)

\* The text begins with the character open and ends with the character close.
Bracketed(text, open, close) ==
    text # <<>> /\ Head(text) = open /\ text[Len(text)] = close

\* C24 as stated: when no json fence applies and the trimmed reply text is
\* fully bracketed, by '{' and '}' or by '[' and ']', the whole trimmed text
\* is the payload.
C24_BracketedTextIsPayload ==
    LET text == TrimSpace(fnIn)
    IN  (/\ fnPc = "returned"
         /\ ~FenceApplies(text)
         /\ Bracketed(text, "{", "}") \/ Bracketed(text, "[", "]"))
            => fnOut.jsonResponse = text

\* C24, amended: when no json fence applies and the trimmed reply text
\* begins with '{' and ends with '}', the whole trimmed text is the payload;
\* a text that begins with '[' and ends with ']' is never taken whole: its
\* payload, if any, is a span that begins with '{' and ends with '}'.
C24_BracedTextIsPayload ==
    LET text == TrimSpace(fnIn)
    IN  (fnPc = "returned" /\ ~FenceApplies(text))
            => /\ Bracketed(text, "{", "}") => fnOut.jsonResponse = text
               /\ Bracketed(text, "[", "]")
                     => /\ fnOut.jsonResponse # text
                        /\ \/ fnOut.jsonResponse = <<>>
                           \/ Bracketed(fnOut.jsonResponse, "{", "}")

\* A text in braces with blanks around it: the payload is the text without
\* the blanks.
C24_Witness ==
    /\ fnPc = "returned"
    /\ fnIn = <<" ", "{", "x", "}", " ">>
    /\ fnOut.jsonResponse = <<"{", "x", "}">>

\* --------------------------------------------------------------- C25

\* The value without the double quotes around it.
Unquoted(value) ==
    IF Len(value) >= 2 /\ Head(value) = "\"" /\ value[Len(value)] = "\""
    THEN SubSeq(value, 2, Len(value) - 1)
    ELSE value

\* The number a text of decimal digits writes.
RECURSIVE NumberOf(_)
NumberOf(digits) ==
    IF digits = <<>> THEN 0
    ELSE 10 * NumberOf(SubSeq(digits, 1, Len(digits) - 1))
           + (CHOOSE d \in 0..9 : ToString(d) = digits[Len(digits)])

\* The leading integer of a value: an optional sign and the longest run of
\* decimal digits after it; 0 when there is no such run.
LeadingInteger(value) ==
    LET signed == value # <<>> /\ Head(value) \in {"+", "-"}
        body   == IF signed THEN Tail(value) ELSE value
        isNum(c) == c \in {ToString(d) : d \in 0..9}
        run    == Greatest({n \in 0..Len(body) : \A k \in 1..n : isNum(body[k])})
        number == NumberOf(SubSeq(body, 1, run))
    IN  IF signed /\ Head(value) = "-" THEN 0 - number ELSE number

Stripped(text, drop) ==
    LET keep == {k \in 1..Len(text) : text[k] \notin drop}
    IN  IF keep = {} THEN <<>> ELSE SubSeq(text, Least(keep), Greatest(keep))

\* The text without one comma at its end.
WithoutTrailingComma(text) ==
    IF text # <<>> /\ text[Len(text)] = ","
    THEN SubSeq(text, 1, Len(text) - 1) ELSE text

\* An is_likely value as the claim reads it: whitespace, a trailing comma
\* and the surrounding double quotes taken off, in this order.
LikelyToken(value) ==
    Stripped(WithoutTrailingComma(Stripped(value, {" ", "\n", "\t", "\r"})), {"\""})

\* C26: IsLikely is true exactly when the is_likely value, with whitespace,
\* a trailing comma and the surrounding double quotes taken off, is the
\* token true; any other value, and a payload without the key, give false.
C26_LikelyOnlyForTrue ==
    /\ \A value \in LikelyValues :
          (fnPc = "returned" /\ fnIn = LikelyText(value))
              => /\ fnOut.result.Error = NoError
                 /\ fnOut.result.Analysis.IsLikely
                        = (LikelyToken(value) = <<"t", "r", "u", "e">>)
    /\ (fnPc = "returned" /\ fnIn = TextWithoutLikely)
          => /\ fnOut.result.Error = NoError
             /\ ~fnOut.result.Analysis.IsLikely

\* The value True (capital T) has given IsLikely = false, in a verdict whose
\* confidence was read.
C26_Witness ==
    /\ fnPc = "returned"
    /\ fnIn = LikelyText(<<"T", "r", "u", "e">>)
    /\ fnOut.result.Error = NoError
    /\ ~fnOut.result.Analysis.IsLikely
    /\ fnOut.result.Analysis.Confidence = 50

\* --------------------------------------------------------------- C27

\* The reply texts whose payload holds no colon, hence no key:value pair.
WithoutPairs ==
    [text \in ReplyTexts |->
        /\ PayloadByPriority(text, 1) # <<>>
        /\ ":" \notin Chars(PayloadByPriority(text, 1))]

\* The oracle answered goroutine i with a text in which a payload is found.
AnsweredWithPayload(i) ==
    /\ answer[i] # <<>>
    /\ ~answer[i][1].err
    /\ ~WithoutPayload[answer[i][1].messages[1][1]]

\* Every field of the verdict has its zero value.
AllZero(analysis) ==
    /\ analysis # NilAnalysis
    /\ ~analysis.IsLikely
    /\ analysis.Confidence = 0
    /\ analysis.CommitHash = <<>>
    /\ analysis.CommitMsg = <<>>
    /\ analysis.Author = <<>>
    /\ analysis.Date = <<>>
    /\ analysis.Explanation = <<>>

\* C27: a task whose reply holds a payload sends a verdict with a nil
\* error; when the payload holds no key:value pair every field of the
\* verdict is zero; the verdict is gathered once the result is drained, and
\* when every gathered verdict is such a zero verdict the call returns the
\* first of them with a nil error.
C27_PayloadAlwaysGivesVerdict ==
    /\ \A i \in Tasks :
          AnsweredWithPayload(i)
              => /\ Len(sent[i]) = 1
                 /\ sent[i][1].Error = NoError
                 /\ sent[i][1].Analysis # NilAnalysis
                 /\ WithoutPairs[answer[i][1].messages[1][1]]
                        => AllZero(sent[i][1].Analysis)
                 /\ (\E k \in 1..Len(drained) : drained[k] = i)
                        => sent[i][1].Analysis \in Gathered
    /\ (DrainedAll /\ analyses # <<>> /\ \A a \in Gathered : AllZero(a))
          => ret = [analysis |-> analyses[1], err |-> NoError]

\* Two candidates, both answered with the empty object; the call returned
\* the zero verdict drained first.
C27_Witness ==
    /\ totalCommits = 2
    /\ DrainedAll
    /\ \A i \in Tasks :
          answer[i] = <<[err |-> FALSE, messages |-> << <<TextEmpty>> >>]>>
    /\ Len(analyses) = 2
    /\ AllZero(ret.analysis)
    /\ ret.analysis = analyses[1]
    /\ ret.err = NoError

\* --------------------------------------------------------------- C28

\* The string value the text gives for a key, the empty text when the key
\* does not stand in it.
ValueOfKey(text, key) ==
    LET opener == <<"\"">> \o key \o <<"\"", ":", " ", "\"">>
        at     == Places(text, opener, 0)
    IN  IF at = {} THEN <<>>
        ELSE LET start == Least(at) + Len(opener)
             IN  SubSeq(text, start + 1, Least(Places(text, <<"\"">>, start)))

\* What each reply text says about the commit.
SaidAboutCommit ==
    [text \in ReplyTexts |->
        [CommitHash |-> ValueOfKey(text, KeyCommitHash),
         CommitMsg  |-> ValueOfKey(text, KeyCommitMsg),
         Author     |-> ValueOfKey(text, KeyAuthor),
         Date       |-> ValueOfKey(text, KeyDate)]]

\* The fields of each candidate record.
FieldsOf ==
    [commit \in Candidates |->
        {Split(commit, "|")[k] : k \in 1..Len(Split(commit, "|"))}]

\* The four fields of a verdict that describe the commit.
AboutCommit(analysis) ==
    [CommitHash |-> analysis.CommitHash, CommitMsg |-> analysis.CommitMsg,
     Author |-> analysis.Author, Date |-> analysis.Date]

\* C28: the CommitHash, CommitMsg, Author and Date of a verdict are what the
\* oracle's payload gives for the keys, the empty string for a key that is
\* absent; no field of the candidate is copied, so the verdict the call
\* returns has an empty commit hash or the oracle's, whatever the
\* candidates are.
C28_CommitFieldsFromPayloadOnly ==
    /\ \A i \in Tasks :
          (sent[i] # <<>> /\ sent[i][1].Analysis # NilAnalysis)
              => LET said == SaidAboutCommit[answer[i][1].messages[1][1]]
                 IN  /\ AboutCommit(sent[i][1].Analysis) = said
                     /\ {said.CommitHash, said.CommitMsg, said.Author, said.Date}
                            \cap FieldsOf[commits[i]] = {}
    /\ (pc = "returned" /\ ret.err = NoError)
          => /\ \E text \in ReplyTexts :
                   AboutCommit(ret.analysis) = SaidAboutCommit[text]
             /\ \A i \in Tasks : ret.analysis.CommitHash \notin FieldsOf[commits[i]]

\* Two well-formed candidates; the verdict returned carries the hash and the
\* author the oracle wrote, which are no candidate's, and no date or
\* subject; the other verdict gathered has an empty commit hash.
C28_Witness ==
    /\ DrainedAll
    /\ commits = <<CommitGood, CommitGood>>
    /\ Len(analyses) = 2
    /\ ret.err = NoError
    /\ ret.analysis.CommitHash = <<"z", "z", "9">>
    /\ ret.analysis.Author = <<"e", "v", "e">>
    /\ ret.analysis.CommitMsg = <<>>
    /\ ret.analysis.Date = <<>>
    /\ \E a \in Gathered : a.CommitHash = <<>> /\ a.Author = <<>>

\* ------------------------------------------- the fan-outs over documents

\* Largest number of files or topics handed to a fan-out.
MaxItems == 3

DocOps == {"ProcessDocuments", "UpdateSpecificDocuments", "WriteDocumentation"}

\* What ProcessFile or WriteTopic hands back to its goroutine.
TaskErrors == {"nil", "error"}

ErrPrecondition == "precondition failed"
ErrNoFiles      == "no .md files found"

\* One call of a fan-out: the operation, the number of files or topics, and
\* whether the file-system test before the fan-out succeeds (the
\* documentation directory exists, every path exists, MkdirAll succeeds).
DocsInit ==
    /\ docCall \in [op : DocOps, items : 0..MaxItems, pre : {"ok", "fail"}]
    /\ docPc = "check"
    /\ launched = 0
    /\ worker = [i \in 1..docCall.items |-> [at |-> "none", err |-> "nil"]]
    /\ wg = 0
    /\ docResultChan = <<>>
    /\ closeCalls = 0
    /\ closer = "none"
    /\ successCount = 0
    /\ failedFiles = <<>>
    /\ docRet = [successCount |-> 0, total |-> 0, err |-> "nil"]
    /\ counted = [i \in 1..docCall.items |-> 0]
    /\ docPanic = "none"
    /\ CoordIdle
    /\ FnIdle
    /\ UpdaterIdle
    /\ StreamIdle

\* The number of files or topics of the call.
totalFiles == docCall.items

\* The returns before the fan-out: "none" when the call goes on.
EarlyReturn(call) ==
    CASE call.op = "ProcessDocuments" ->
            IF call.pre = "fail" THEN ErrPrecondition
            ELSE IF call.items = 0 THEN ErrNoFiles
            ELSE "none"
      [] call.op = "UpdateSpecificDocuments" ->
            IF call.items = 0 THEN "nil"
            ELSE IF call.pre = "fail" THEN ErrPrecondition
            ELSE "none"
      [] call.op = "WriteDocumentation" ->
            IF call.pre = "fail" THEN ErrPrecondition ELSE "none"

\* The statements before "resultChan := make(chan ProcessResult, total)".
DocsCheck ==
    /\ docPc = "check"
    /\ IF EarlyReturn(docCall) = "none"
       THEN docPc' = "launch" /\ UNCHANGED docRet
       ELSE /\ docPc' = "returned"
            /\ docRet' = [successCount |-> 0, total |-> 0,
                          err |-> EarlyReturn(docCall)]
    /\ UNCHANGED <<docCall, launched, worker, wg, docResultChan, closeCalls, closer,
                   successCount, failedFiles, counted, docPanic,
                   coordVars, fnVars, updaterVars, streamVars>>

\* One iteration of the launch loop: "wg.Add(1)" and the go statement.
Launch ==
    /\ docPanic = "none"
    /\ docPc = "launch"
    /\ launched < totalFiles
    /\ wg' = wg + 1
    /\ worker' = [worker EXCEPT ![launched + 1].at = "started"]
    /\ launched' = launched + 1
    /\ UNCHANGED <<docCall, docPc, docResultChan, closeCalls, closer, successCount,
                   failedFiles, docRet, counted, docPanic,
                   coordVars, fnVars, updaterVars, streamVars>>

\* After the loop: "go func() { wg.Wait(); close(resultChan) }()".
StartCloser ==
    /\ docPanic = "none"
    /\ docPc = "launch"
    /\ launched = totalFiles
    /\ closer' = "waiting"
    /\ docPc' = "range"
    /\ UNCHANGED <<docCall, launched, worker, wg, docResultChan, closeCalls,
                   successCount, failedFiles, docRet, counted, docPanic,
                   coordVars, fnVars, updaterVars, streamVars>>

\* ProcessFile or WriteTopic returns to goroutine i.
WorkerCall(i) ==
    /\ docPanic = "none"
    /\ worker[i].at = "started"
    /\ \E err \in TaskErrors :
          worker' = [worker EXCEPT ![i] = [at |-> "sending", err |-> err]]
    /\ UNCHANGED <<docCall, docPc, launched, wg, docResultChan, closeCalls, closer,
                   successCount, failedFiles, docRet, counted, docPanic,
                   coordVars, fnVars, updaterVars, streamVars>>

\* "resultChan <- result": blocks while the buffer is full, panics on a
\* closed channel.
WorkerSend(i) ==
    /\ docPanic = "none"
    /\ worker[i].at = "sending"
    /\ IF closeCalls > 0
       THEN /\ docPanic' = "send on closed channel"
            /\ UNCHANGED <<worker, docResultChan>>
       ELSE /\ Len(docResultChan) < totalFiles
            /\ docResultChan' =
                   Append(docResultChan,
                          [FileName |-> i, Success |-> worker[i].err = "nil",
                           Error |-> worker[i].err])
            /\ worker' = [worker EXCEPT ![i].at = "sent"]
            /\ UNCHANGED docPanic
    /\ UNCHANGED <<docCall, docPc, launched, wg, closeCalls, closer, successCount,
                   failedFiles, docRet, counted,
                   coordVars, fnVars, updaterVars, streamVars>>

\* The goroutine ends: the deferred "wg.Done()".
WorkerDone(i) ==
    /\ docPanic = "none"
    /\ worker[i].at = "sent"
    /\ wg' = wg - 1
    /\ worker' = [worker EXCEPT ![i].at = "done"]
    /\ UNCHANGED <<docCall, docPc, launched, docResultChan, closeCalls, closer,
                   successCount, failedFiles, docRet, counted, docPanic,
                   coordVars, fnVars, updaterVars, streamVars>>

\* Mutant of CloserWait: the closing goroutine does not wait.
CloserWaitNoWait ==
    /\ docPanic = "none"
    /\ closer = "waiting"
    /\ closer' = "closing"
    /\ UNCHANGED <<docCall, docPc, launched, worker, wg, docResultChan, closeCalls,
                   successCount, failedFiles, docRet, counted, docPanic,
                   coordVars, fnVars, updaterVars, streamVars>>

\* "wg.Wait()" returns once the counter is zero.
CloserWait ==
    /\ docPanic = "none"
    /\ closer = "waiting"
    /\ wg = 0
    /\ closer' = "closing"
    /\ UNCHANGED <<docCall, docPc, launched, worker, wg, docResultChan, closeCalls,
                   successCount, failedFiles, docRet, counted, docPanic,
                   coordVars, fnVars, updaterVars, streamVars>>

\* "close(resultChan)": panics on a closed channel.
CloserClose ==
    /\ docPanic = "none"
    /\ closer = "closing"
    /\ IF closeCalls > 0
       THEN docPanic' = "close of closed channel" /\ UNCHANGED closeCalls
       ELSE closeCalls' = closeCalls + 1 /\ UNCHANGED docPanic
    /\ closer' = "done"
    /\ UNCHANGED <<docCall, docPc, launched, worker, wg, docResultChan,
                   successCount, failedFiles, docRet, counted,
                   coordVars, fnVars, updaterVars, streamVars>>

\* One iteration of "for result := range resultChan".
RangeRecv ==
    /\ docPanic = "none"
    /\ docPc = "range"
    /\ docResultChan # <<>>
    /\ LET result == Head(docResultChan)
       IN  /\ docResultChan' = Tail(docResultChan)
           /\ IF result.Success
              THEN successCount' = successCount + 1 /\ UNCHANGED failedFiles
              ELSE /\ failedFiles' = Append(failedFiles, result.FileName)
                   /\ UNCHANGED successCount
           /\ counted' = [counted EXCEPT ![result.FileName] = @ + 1]
    /\ UNCHANGED <<docCall, docPc, launched, worker, wg, closeCalls, closer, docRet,
                   docPanic, coordVars, fnVars, updaterVars, streamVars>>

\* The range loop ends on the closed, empty channel; the fan-out returns.
RangeEnd ==
    /\ docPanic = "none"
    /\ docPc = "range"
    /\ docResultChan = <<>>
    /\ closeCalls > 0
    /\ docPc' = "returned"
    /\ docRet' = [successCount |-> successCount, total |-> totalFiles, err |-> "nil"]
    /\ UNCHANGED <<docCall, launched, worker, wg, docResultChan, closeCalls, closer,
                   successCount, failedFiles, counted, docPanic,
                   coordVars, fnVars, updaterVars, streamVars>>

DocsNext ==
    \/ DocsCheck
    \/ Launch
    \/ StartCloser
    \/ \E i \in 1..totalFiles : WorkerCall(i)
    \/ \E i \in 1..totalFiles : WorkerSend(i)
    \/ \E i \in 1..totalFiles : WorkerDone(i)
    \/ CloserWait
    \/ CloserClose
    \/ RangeRecv
    \/ RangeEnd

DocsSpec == DocsInit /\ [][DocsNext]_vars

\* --------------------------------------------------------------- C29

\* The fan-out ran to its end (no return before the launch loop).
FannedOut == docPc = "returned" /\ closer # "none"

\* C29: the result channel is closed at most once and only after every task
\* has sent (no send on a closed channel, no second close); no result is
\* counted twice; a fan-out returns only after every task has ended and its
\* result has been counted once, with successCount + failed = total =
\* the number of items and 0 <= successCount <= total.
C29_FanOutCompletes ==
    /\ docPanic = "none"
    /\ closeCalls <= 1
    /\ closeCalls = 1
          => \A i \in 1..totalFiles : worker[i].at \in {"sent", "done"}
    /\ \A i \in 1..totalFiles : counted[i] <= 1
    /\ docPc = "returned"
          => /\ docRet.successCount + Len(failedFiles) = docRet.total
             /\ 0 <= docRet.successCount
             /\ docRet.successCount <= docRet.total
    /\ FannedOut
          => /\ closeCalls = 1
             /\ \A i \in 1..totalFiles : worker[i].at = "done" /\ counted[i] = 1
             /\ docRet.total = totalFiles
             /\ docRet.err = "nil"
             /\ docRet.successCount
                    = Cardinality({i \in 1..totalFiles : worker[i].err = "nil"})

\* Three topics, one of them failed: WriteDocumentation returned 2 of 3.
C29_Witness ==
    /\ docCall = [op |-> "WriteDocumentation", items |-> 3, pre |-> "ok"]
    /\ FannedOut
    /\ closeCalls = 1
    /\ docRet = [successCount |-> 2, total |-> 3, err |-> "nil"]
    /\ Len(failedFiles) = 1

\* ------------------------------------------------- the streaming calls

\* Largest number of messages a stream carries.
MaxMessages == 2

\* The capacity of the two channels claudecode.QueryStreamWithRequest hands
\* back.
StreamBuffer == 1

StreamOps == {"ProcessFile", "getResponse"}

ErrStreaming == "streaming error"
ErrResponse  == "failed to get response"

\* How often an entry stands in the log.
Count(log, entry) == Cardinality({k \in 1..Len(log) : log[k] = entry})

\* The operation has called claudecode.QueryStreamWithRequest and enters its
\* select loop; the history of getResponse ends with the user's turn.
StreamInit ==
    /\ streamOp \in StreamOps
    /\ producer = "running"
    /\ messageChan = <<>>
    /\ messageClosed = FALSE
    /\ errorChan = <<>>
    /\ streamCtxDone = FALSE
    /\ streamPc = "select"
    /\ messageCount = 0
    /\ conversationHistory = IF streamOp = "getResponse" THEN <<"user">> ELSE <<>>
    /\ streamRet = "nil"
    /\ streamLog = <<>>
    /\ CoordIdle
    /\ FnIdle
    /\ UpdaterIdle
    /\ DocsIdle

\* The stream puts a message on its message channel.
StreamMessage ==
    /\ producer = "running"
    /\ Count(streamLog, "message") < MaxMessages
    /\ Len(messageChan) < StreamBuffer
    /\ messageChan' = Append(messageChan, "assistant")
    /\ streamLog' = Append(streamLog, "message")
    /\ UNCHANGED <<streamOp, producer, messageClosed, errorChan, streamCtxDone,
                   streamPc, messageCount, conversationHistory, streamRet,
                   coordVars, fnVars, updaterVars, docVars>>

\* The stream puts a non-nil error on its error channel.
StreamFail ==
    /\ producer = "running"
    /\ Len(errorChan) < StreamBuffer
    /\ errorChan' = Append(errorChan, "error")
    /\ producer' = "failed"
    /\ streamLog' = Append(streamLog, "error")
    /\ UNCHANGED <<streamOp, messageChan, messageClosed, streamCtxDone, streamPc,
                   messageCount, conversationHistory, streamRet,
                   coordVars, fnVars, updaterVars, docVars>>

\* The stream ends: its message channel is closed.
StreamClose ==
    /\ producer \in {"running", "failed"}
    /\ messageClosed' = TRUE
    /\ producer' = "done"
    /\ streamLog' = Append(streamLog, "close")
    /\ UNCHANGED <<streamOp, messageChan, errorChan, streamCtxDone, streamPc,
                   messageCount, conversationHistory, streamRet,
                   coordVars, fnVars, updaterVars, docVars>>

\* The caller's context is cancelled.
StreamCancel ==
    /\ streamPc = "select"
    /\ ~streamCtxDone
    /\ streamCtxDone' = TRUE
    /\ UNCHANGED <<streamOp, producer, messageChan, messageClosed, errorChan,
                   streamPc, messageCount, conversationHistory, streamRet, streamLog,
                   coordVars, fnVars, updaterVars, docVars>>

\* The select takes "case message, ok := <-messageChan" with ok = true.
SelectMessage ==
    /\ streamPc = "select"
    /\ messageChan # <<>>
    /\ messageChan' = Tail(messageChan)
    /\ messageCount' = messageCount + 1
    /\ UNCHANGED <<streamOp, producer, messageClosed, errorChan, streamCtxDone,
                   streamPc, conversationHistory, streamRet, streamLog,
                   coordVars, fnVars, updaterVars, docVars>>

\* The select takes "case message, ok := <-messageChan" with ok = false:
\* the operation returns nil; getResponse appends the assistant's turn.
SelectClosed ==
    /\ streamPc = "select"
    /\ messageChan = <<>>
    /\ messageClosed
    /\ conversationHistory' =
           IF streamOp = "getResponse"
           THEN Append(conversationHistory, "assistant") ELSE conversationHistory
    /\ streamRet' = "nil"
    /\ streamPc' = "returned"
    /\ streamLog' = Append(streamLog, "return")
    /\ UNCHANGED <<streamOp, producer, messageChan, messageClosed, errorChan,
                   streamCtxDone, messageCount,
                   coordVars, fnVars, updaterVars, docVars>>

\* The select takes "case err := <-errorChan" with a non-nil error.
SelectError ==
    /\ streamPc = "select"
    /\ errorChan # <<>>
    /\ errorChan' = Tail(errorChan)
    /\ streamRet' = IF streamOp = "getResponse" THEN ErrResponse ELSE ErrStreaming
    /\ streamPc' = "returned"
    /\ streamLog' = Append(streamLog, "return")
    /\ UNCHANGED <<streamOp, producer, messageChan, messageClosed, streamCtxDone,
                   messageCount, conversationHistory,
                   coordVars, fnVars, updaterVars, docVars>>

\* The select takes "case <-ctx.Done()".
SelectCtxDone ==
    /\ streamPc = "select"
    /\ streamCtxDone
    /\ streamRet' = ErrContext
    /\ streamPc' = "returned"
    /\ streamLog' = Append(streamLog, "return")
    /\ UNCHANGED <<streamOp, producer, messageChan, messageClosed, errorChan,
                   streamCtxDone, messageCount, conversationHistory,
                   coordVars, fnVars, updaterVars, docVars>>

StreamNext ==
    \/ StreamMessage
    \/ StreamFail
    \/ StreamClose
    \/ StreamCancel
    \/ SelectMessage
    \/ SelectClosed
    \/ SelectError
    \/ SelectCtxDone

StreamSpec == StreamInit /\ [][StreamNext]_vars

\* --------------------------------------------------------------- C30

\* The stream had put its error on the error channel when the operation
\* returned.
ErrorBeforeReturn ==
    \E j, k \in 1..Len(streamLog) :
        j < k /\ streamLog[j] = "error" /\ streamLog[k] = "return"

\* C30 (as claimed): when the stream has put a non-nil error on its error
\* channel, ProcessFile and getResponse return a non-nil error whatever case
\* the select takes, and getResponse appends no assistant turn.
C30_StreamErrorAlwaysReported ==
    ErrorBeforeReturn
        => /\ streamRet # "nil"
           /\ \A k \in 1..Len(conversationHistory) :
                  conversationHistory[k] # "assistant"

====
